---- MODULE Spec2Model ----
(***************************************************************************)
(* A model of pwkit.mathlib: shape broadcasting, provider ("library")      *)
(* resolution, the generated dispatch wrappers, the tidying adapter and    *)
(* the operator methods of MathlibDelegatingObject.                        *)
(*                                                                         *)
(* Every action models one complete call from an outside caller: it draws  *)
(* the arguments from small sets, runs the modelled code and records the   *)
(* call, its outcome and the events it raised (attribute reads, accepts    *)
(* queries, provider invocations).  Return then forgets the call, so that  *)
(* the next call starts from the idle program again (the module keeps no   *)
(* state between calls besides its registry and provider singletons).      *)
(***************************************************************************)
EXTENDS Integers, Sequences, FiniteSets, TLC

VARIABLES pc, call, ret, trace, mem, registry, singletons

vars == <<pc, call, ret, trace, mem, registry, singletons>>

(***************************************************************************)
(* Bounds of the model.                                                    *)
(***************************************************************************)
\* broadcast_shapes is called with 1..MaxShapes shapes
MaxShapes == 3
\* shapes have 0, 1 or 2 dimensions
Ranks == {0, 1, 2}

\* dimension sizes: 0 (an empty axis), 1 (the size that broadcasts) and 2
Dims == {0, 1, 2}

Shapes == UNION {[1..r -> Dims] : r \in Ranks}

ShapeLists == UNION {[1..n -> Shapes] : n \in 1..MaxShapes}

(***************************************************************************)
(* Results of a call: a returned value or a raised exception.              *)
(***************************************************************************)
Returned(v) == [err |-> "none", val |-> v, msg |-> <<>>]

Raised(kind, m) == [err |-> kind, val |-> <<>>, msg |-> m]

\* an exception message: the literal text and the values formatted into it
Message(text, args) == [text |-> text, args |-> args]

(***************************************************************************)
(* broadcast_shapes (mathlib.py 56-79)                                     *)
(***************************************************************************)
SeqMax(lens) == CHOOSE m \in {lens[k] : k \in DOMAIN lens} :
                    \A k \in DOMAIN lens : lens[k] <= m

\* (1,) * (maxlen - len (s)) + s
PadShape_Right(s, maxlen) == s \o [k \in 1..(maxlen - Len(s)) |-> 1]

PadShape(s, maxlen) == [k \in 1..(maxlen - Len(s)) |-> 1] \o s

\* range (1, len (shapes)), as 1-based row numbers of padded
OtherRows_SkipOne(n) == 3..n

OtherRows(n) == 2..n

\* the body of the inner loop for one x = padded[j,i], given r = result[i]:
\* the new result[i], or the shape-mismatch error
MergeDim_NoCheck(r, x) == IF x # 1 THEN Returned(x) ELSE Returned(r)

\* the same without any merging
MergeDim_Keep(r, x) == Returned(r)

\* the same where the first size other than 1 stays
MergeDim_FirstWins(r, x) == IF r = 1 THEN Returned(x) ELSE Returned(r)

MergeDim(r, x) ==
    IF x # 1
    THEN IF r = 1 THEN Returned(x)
         ELSE IF r # x
              THEN Raised("ValueError",
                     Message("shape mismatch: objects cannot be broadcast to a single shape", <<>>))
              ELSE Returned(r)
    ELSE Returned(r)

RECURSIVE BroadcastLoop(_, _, _, _)
BroadcastLoop(padded, result, i, j) ==
    IF i > Len(result) THEN Returned(result)
    ELSE IF j > Len(padded) THEN BroadcastLoop(padded, result, i + 1, 1)
    ELSE IF j \notin OtherRows(Len(padded))
         THEN BroadcastLoop(padded, result, i, j + 1)
    ELSE LET m == MergeDim(result[i], padded[j][i])
         IN  IF m.err # "none" THEN m
             ELSE BroadcastLoop(padded, [result EXCEPT ![i] = m.val], i, j + 1)

broadcast_shapes(shapes) ==
    LET maxlen == SeqMax([k \in DOMAIN shapes |-> Len(shapes[k])])
        padded == [k \in DOMAIN shapes |-> PadShape(shapes[k], maxlen)]
    IN  BroadcastLoop(padded, padded[1], 1, 1)

(***************************************************************************)
(* Operand types.  An operand's type decides whether it is one of          *)
(* numpy_types and what its _pk_mathlib_library_ attribute holds.          *)
(*   ndarray, float      plain numeric types without the attribute         *)
(*   TestArrayWrapper    mathlib.py 838-853                                *)
(*   MathlibDelegatingObject  a subclass that leaves the attribute None    *)
(*   dict                neither numeric nor advertising anything          *)
(*   NdSubA              a caller's ndarray subclass that advertises LibA  *)
(*   ClientA, ClientB    a caller's types advertising LibA resp. LibB      *)
(*   ClientBase          a caller's type advertising a bare                *)
(*                       MathFunctionLibrary instance                      *)
(***************************************************************************)
NumpyClasses == {"ndarray", "float", "NdSubA"}

Classes == NumpyClasses \cup
    {"TestArrayWrapper", "MathlibDelegatingObject", "dict",
     "ClientA", "ClientB", "ClientBase"}

\* isinstance (o, numpy_types)
IsNumpyType(o) == o.cls \in NumpyClasses

\* getattr (obj, '_pk_mathlib_library_', None)
AdvertisedLibrary(o) ==
    CASE o.cls = "TestArrayWrapper" -> "TestWrappedLibrary"
      [] o.cls = "NdSubA" -> "LibA"
      [] o.cls = "ClientA" -> "LibA"
      [] o.cls = "ClientB" -> "LibB"
      [] o.cls = "ClientBase" -> "MathFunctionLibrary"
      [] OTHER -> "None"

\* library.accepts (other).  LibA and LibB are a caller's providers: both take
\* ClientA and ClientB operands, and LibA takes the numpy types as well.
accepts(library, other) ==
    CASE library = "numpy_library" -> IsNumpyType(other)
      [] library = "TestWrappedLibrary" ->
            IsNumpyType(other) \/ other.cls = "TestArrayWrapper"
      [] library = "LibA" ->
            IsNumpyType(other) \/ other.cls \in {"ClientA", "ClientB"}
      [] library = "LibB" -> other.cls \in {"ClientA", "ClientB"}
      [] OTHER -> FALSE

(***************************************************************************)
(* get_library_for (mathlib.py 425-463).  The result comes with the events *)
(* of the call: each read of the attribute and each accepts query.         *)
(***************************************************************************)
GetattrEvent(i) == [ev |-> "getattr", arg |-> i, lib |-> "None"]

AcceptsEvent(library, j) == [ev |-> "accepts", arg |-> j, lib |-> library]

Outcome(res, events) == [res |-> res, events |-> events]

After(events, o) == Outcome(o.res, events \o o.events)

\* '%s (%s)' % (o, o.__class__.__name__) for o in objects
IdentifyMessage_FirstOnly(objects) ==
    <<"cannot identify math function library for input(s): ",
      <<[thing |-> objects[1], type |-> objects[1].cls]>>>>

IdentifyMessage(objects) ==
    <<"cannot identify math function library for input(s): ",
      [k \in DOMAIN objects |-> [thing |-> objects[k], type |-> objects[k].cls]]>>

\* the inner loop "for obj2 in objects" with its else branch: TRUE when the
\* loop ends without break
RECURSIVE AcceptsLoop(_, _, _)
AcceptsLoop(library, objects, j) ==
    IF j > Len(objects) THEN Outcome(TRUE, <<>>)
    ELSE IF ~accepts(library, objects[j])
         THEN Outcome(FALSE, <<AcceptsEvent(library, j)>>)
         ELSE After(<<AcceptsEvent(library, j)>>,
                    AcceptsLoop(library, objects, j + 1))

AcceptsAll_SkipCheck(library, objects) == Outcome(TRUE, <<>>)

AcceptsAll(library, objects) == AcceptsLoop(library, objects, 1)

\* the outer loop "for obj in objects" and the raise that follows it
RECURSIVE LibraryScan(_, _)
LibraryScan(objects, i) ==
    IF i > Len(objects)
    THEN Outcome(Raised("ValueError", IdentifyMessage(objects)), <<>>)
    ELSE LET library == AdvertisedLibrary(objects[i])
         IN  IF library = "None"
             THEN After(<<GetattrEvent(i)>>, LibraryScan(objects, i + 1))
             ELSE LET a == AcceptsAll(library, objects)
                  IN  IF a.res
                      THEN Outcome(Returned(library), <<GetattrEvent(i)>> \o a.events)
                      ELSE After(<<GetattrEvent(i)>> \o a.events,
                                 LibraryScan(objects, i + 1))

get_library_for_NoFastPath(objects) == LibraryScan(objects, 1)

\* the same with any () in place of all () in the first test
get_library_for_AnyNumeric(objects) ==
    IF \E k \in DOMAIN objects : IsNumpyType(objects[k])
    THEN Outcome(Returned("numpy_library"), <<>>)
    ELSE LibraryScan(objects, 1)

get_library_for(objects) ==
    IF \A k \in DOMAIN objects : IsNumpyType(objects[k])
    THEN Outcome(Returned("numpy_library"), <<>>)
    ELSE LibraryScan(objects, 1)

\* the operands of the resolution calls: one object of every type
Operand(c) == [cls |-> c, shape |-> <<2>>]

\* get_library_for is called with 1..MaxOperands operands
MaxOperands == 3

OperandLists == UNION {[1..n -> {Operand(c) : c \in Classes}] : n \in 1..MaxOperands}

(***************************************************************************)
(* The operation registry (mathlib.py 102-252).  Flags are kept as the set *)
(* of the bits that are set.                                               *)
(***************************************************************************)
Signatures == {"std_unary", "std_binary", "other_1"}

Flags == {"has_numpy_impl", "bool_result", "ints_only"}

\* FunctionSpecification.__init__
FS(name, signature, flags) == [name |-> name, signature |-> signature, flags |-> flags]

FunctionSpecifications == <<
    FS("absolute", "std_unary", {"has_numpy_impl"}),
    FS("add", "std_binary", {"has_numpy_impl"}),
    FS("arccos", "std_unary", {"has_numpy_impl"}),
    FS("arccosh", "std_unary", {"has_numpy_impl"}),
    FS("arcsin", "std_unary", {"has_numpy_impl"}),
    FS("arcsinh", "std_unary", {"has_numpy_impl"}),
    FS("arctan", "std_unary", {"has_numpy_impl"}),
    FS("arctan2", "std_unary", {"has_numpy_impl"}),
    FS("arctanh", "std_unary", {"has_numpy_impl"}),
    FS("bitwise_and", "std_binary", {"has_numpy_impl", "ints_only"}),
    FS("bitwise_or", "std_binary", {"has_numpy_impl", "ints_only"}),
    FS("bitwise_xor", "std_binary", {"has_numpy_impl", "ints_only"}),
    FS("broadcast_to", "other_1", {"has_numpy_impl"}),
    FS("cbrt", "std_unary", {"has_numpy_impl"}),
    FS("ceil", "std_unary", {"has_numpy_impl"}),
    FS("cmask", "other_1", {"bool_result"}),
    FS("conjugate", "std_unary", {"has_numpy_impl"}),
    FS("copysign", "std_binary", {"has_numpy_impl"}),
    FS("cos", "std_unary", {"has_numpy_impl"}),
    FS("cosh", "std_unary", {"has_numpy_impl"}),
    FS("deg2rad", "std_unary", {"has_numpy_impl"}),
    FS("divide", "std_binary", {"has_numpy_impl"}),
    FS("get_dtype", "other_1", {}),
    FS("get_size", "other_1", {}),
    FS("equal", "std_binary", {"has_numpy_impl", "bool_result"}),
    FS("exp", "std_unary", {"has_numpy_impl"}),
    FS("exp2", "std_unary", {"has_numpy_impl"}),
    FS("expm1", "std_unary", {"has_numpy_impl"}),
    FS("fabs", "std_unary", {"has_numpy_impl"}),
    FS("floor", "std_unary", {"has_numpy_impl"}),
    FS("floor_divide", "std_binary", {"has_numpy_impl"}),
    FS("fmax", "std_binary", {"has_numpy_impl"}),
    FS("fmin", "std_binary", {"has_numpy_impl"}),
    FS("fmod", "std_binary", {"has_numpy_impl"}),
    FS("frexp", "other_1", {"has_numpy_impl"}),
    FS("greater", "std_binary", {"has_numpy_impl", "bool_result"}),
    FS("greater_equal", "std_binary", {"has_numpy_impl", "bool_result"}),
    FS("hypot", "std_binary", {"has_numpy_impl"}),
    FS("invert", "std_unary", {"has_numpy_impl"}),
    FS("isfinite", "std_unary", {"has_numpy_impl", "bool_result"}),
    FS("isinf", "std_unary", {"has_numpy_impl", "bool_result"}),
    FS("isnan", "std_unary", {"has_numpy_impl", "bool_result"}),
    FS("ldexp", "std_binary", {"has_numpy_impl"}),
    FS("left_shift", "std_binary", {"has_numpy_impl", "ints_only"}),
    FS("less", "std_binary", {"has_numpy_impl", "bool_result"}),
    FS("less_equal", "std_binary", {"has_numpy_impl", "bool_result"}),
    FS("log", "std_unary", {"has_numpy_impl"}),
    FS("log10", "std_unary", {"has_numpy_impl"}),
    FS("log1p", "std_unary", {"has_numpy_impl"}),
    FS("log2", "std_unary", {"has_numpy_impl"}),
    FS("logaddexp", "std_binary", {"has_numpy_impl"}),
    FS("logaddexp2", "std_binary", {"has_numpy_impl"}),
    FS("logical_and", "std_binary", {"has_numpy_impl", "bool_result"}),
    FS("logical_or", "std_binary", {"has_numpy_impl", "bool_result"}),
    FS("logical_not", "std_unary", {"has_numpy_impl", "bool_result"}),
    FS("logical_xor", "std_binary", {"has_numpy_impl", "bool_result"}),
    FS("maximum", "std_binary", {"has_numpy_impl"}),
    FS("minimum", "std_binary", {"has_numpy_impl"}),
    FS("modf", "other_1", {"has_numpy_impl"}),
    FS("multiply", "std_binary", {"has_numpy_impl"}),
    FS("negative", "std_unary", {"has_numpy_impl"}),
    FS("nextafter", "std_binary", {"has_numpy_impl"}),
    FS("not_equal", "std_binary", {"has_numpy_impl", "bool_result"}),
    FS("power", "std_binary", {"has_numpy_impl"}),
    FS("rad2deg", "std_unary", {"has_numpy_impl"}),
    FS("reciprocal", "std_unary", {"has_numpy_impl"}),
    FS("remainder", "std_binary", {"has_numpy_impl"}),
    FS("repvals", "std_unary", {}),
    FS("reshape", "other_1", {"has_numpy_impl"}),
    FS("right_shift", "std_binary", {"has_numpy_impl", "ints_only"}),
    FS("rint", "std_unary", {"has_numpy_impl"}),
    FS("shape", "other_1", {"has_numpy_impl"}),
    FS("sign", "std_unary", {"has_numpy_impl"}),
    FS("signbit", "std_unary", {"has_numpy_impl", "bool_result"}),
    FS("sin", "std_unary", {"has_numpy_impl"}),
    FS("sinh", "std_unary", {"has_numpy_impl"}),
    FS("spacing", "std_unary", {"has_numpy_impl"}),
    FS("sqrt", "std_unary", {"has_numpy_impl"}),
    FS("square", "std_unary", {"has_numpy_impl"}),
    FS("subtract", "std_binary", {"has_numpy_impl"}),
    FS("tan", "std_unary", {"has_numpy_impl"}),
    FS("tanh", "std_unary", {"has_numpy_impl"}),
    FS("true_divide", "std_binary", {"has_numpy_impl"}),
    FS("trunc", "std_unary", {"has_numpy_impl"})
>>

\* dict ((s.name, s) for s in [...]): a later entry of a name replaces an
\* earlier one
RECURSIVE DictOf(_, _)
DictOf(specs, k) ==
    IF k = 0 THEN <<>>
    ELSE (specs[k].name :> specs[k]) @@ DictOf(specs, k - 1)

common_interface_functions ==
    DictOf(FunctionSpecifications, Len(FunctionSpecifications))

OpNames == DOMAIN common_interface_functions

(***************************************************************************)
(* Objects and buffers.  An array object has an identity, a type, a shape, *)
(* an element type and a buffer; base is the shape in which the buffer is  *)
(* laid out (row-major), which differs from shape for the read-only views  *)
(* numpy.broadcast_to returns.  mem maps buffers to their elements.        *)
(***************************************************************************)
Obj(id, cls, shape, base, dtype, buf) ==
    [id |-> id, cls |-> cls, shape |-> shape, base |-> base, dtype |-> dtype, buf |-> buf]

None == Obj("None", "NoneType", <<>>, <<>>, "none", "none")

NoMem == <<>>

RECURSIVE Size(_)
Size(shape) == IF shape = <<>> THEN 1 ELSE Head(shape) * Size(Tail(shape))

\* the multi-index (0-based entries) of the k-th element (0-based), row-major
RECURSIVE Unravel(_, _)
Unravel(k, shape) ==
    IF shape = <<>> THEN <<>>
    ELSE LET inner == Size(Tail(shape))
         IN  <<k \div inner>> \o Unravel(k % inner, Tail(shape))

RECURSIVE Ravel(_, _)
Ravel(idx, shape) ==
    IF shape = <<>> THEN 0
    ELSE Head(idx) * Size(Tail(shape)) + Ravel(Tail(idx), Tail(shape))

\* the elements of an array of shape base seen through numpy broadcasting as an
\* array of shape shape
ViewRead(data, base, shape) ==
    IF base = shape THEN data
    ELSE [k \in 1..Size(shape) |->
            LET idx == Unravel(k - 1, shape)
                off == Len(shape) - Len(base)
                bidx == [d \in 1..Len(base) |->
                            IF base[d] = 1 THEN 0 ELSE idx[d + off]]
            IN  data[Ravel(bidx, base) + 1]]

\* x.data as a flat row-major sequence
Read(x, m) == ViewRead(m[x.buf], x.base, x.shape)

\* what numpy.empty leaves in a new buffer
Uninit == -99

(***************************************************************************)
(* The providers.  numpy_library and TestWrappedLibrary are the module's;  *)
(* MathFunctionLibrary stands for a bare instance of the base class.  LibA *)
(* and LibB are a caller's subclasses of TidiedFunctionLibrary, written    *)
(* like TestWrappedLibrary for their own wrapper types: LibA defines       *)
(* reshape and broadcast_to besides the capability methods, LibB only the  *)
(* capability methods and its tidy operations.                             *)
(***************************************************************************)
TidiedLibraries == {"TestWrappedLibrary", "LibA", "LibB"}

\* the methods a provider's class body defines besides accepts, new_empty
\* and typeconvert (TestWrappedLibrary: mathlib.py 819-835)
Implements(library, method) ==
    CASE library = "TestWrappedLibrary" ->
            method \in {"broadcast_to", "tidy_negative", "tidy_add"}
      [] library = "LibA" ->
            method \in {"reshape", "broadcast_to", "tidy_negative", "tidy_add"}
      [] library = "LibB" -> method \in {"tidy_negative", "tidy_add"}
      [] OTHER -> FALSE

\* the wrapper type a tidied provider creates
WrapperOf(library) ==
    CASE library = "TestWrappedLibrary" -> "TestArrayWrapper"
      [] library = "LibA" -> "ClientA"
      [] OTHER -> "ClientB"

\* MathFunctionLibrary._not_implemented (mathlib.py 321-327)
_not_implemented_Library(self, opname, x) ==
    Raised("NotImplementedError",
           Message("math function \"%s\" not implemented for objects of type \"%s\" in %s",
                   <<opname, self, self>>))

_not_implemented(self, opname, x) ==
    Raised("NotImplementedError",
           Message("math function \"%s\" not implemented for objects of type \"%s\" in %s",
                   <<opname, x.cls, self>>))

\* typeconvert (mathlib.py 814-817, and try_asarray 82-90): a wrapper the
\* provider knows is returned as it is, an ndarray is wrapped without a copy
\* of its buffer, anything else is refused by try_asarray
typeconvert(self, thing, site) ==
    IF ~IsNumpyType(thing) /\ accepts(self, thing) THEN Returned(thing)
    ELSE IF IsNumpyType(thing)
    THEN Returned(Obj(site, WrapperOf(self), thing.shape, thing.base,
                      thing.dtype, thing.buf))
    ELSE Raised("ValueError", Message("cannot treat %r as a data array", <<thing.id>>))

\* reshape: the stub of the base class unless the provider defines it, and
\* then a view of the same buffer
reshape(self, x, shape, site) ==
    IF Implements(self, "reshape")
    THEN IF Size(shape) = Size(x.shape)
         THEN Returned(Obj(site, x.cls, shape, shape, x.dtype, x.buf))
         ELSE Raised("ValueError", Message("cannot reshape array", <<>>))
    ELSE _not_implemented(self, "reshape", x)

\* broadcast_to (mathlib.py 819-820): a view of x through numpy.broadcast_to
broadcast_to(self, x, shape, site) ==
    IF Implements(self, "broadcast_to")
    THEN IF broadcast_shapes(<<x.shape, shape>>) = Returned(shape)
         THEN Returned(Obj(site, WrapperOf(self), shape, x.shape, x.dtype, x.buf))
         ELSE Raised("ValueError", Message("operands could not be broadcast together", <<>>))
    ELSE _not_implemented(self, "broadcast_to", x)

\* the name of a buffer (and object) that does not exist yet
Fresh(m) == IF "new" \in DOMAIN m THEN "new2" ELSE "new"

\* new_empty (mathlib.py 811-812): a new wrapper around numpy.empty
new_empty(self, shape, dtype, m) ==
    Obj(Fresh(m), WrapperOf(self), shape, shape, dtype, Fresh(m))

Allocate(m, o) == m @@ (o.buf :> [k \in 1..Size(o.shape) |-> Uninit])

NewEmptyEvent(self, shape, dtype) ==
    [ev |-> "new_empty", lib |-> self, shape |-> shape, dtype |-> dtype]

\* numpy.result_type of two element types
result_type_First(a, b) == a

result_type(a, b) ==
    IF "float64" \in {a, b} THEN "float64"
    ELSE IF "int64" \in {a, b} THEN "int64" ELSE "bool"

(***************************************************************************)
(* The tidy operations of a provider (mathlib.py 822-835).  Done carries   *)
(* the result of a call, the events it raised and the buffers after it.    *)
(***************************************************************************)
Done(res, events, m) == [res |-> res, events |-> events, mem |-> m]

\* the one element of a singleton: The({e(v) : v \in {d}}) is e with v = d,
\* where d is evaluated once
The(S) == CHOOSE y \in S : TRUE

TidyEvent(self, opname, ins, out, kwargs) ==
    [ev |-> "tidy", lib |-> self, name |-> opname, ins |-> ins, out |-> out,
     kwargs |-> kwargs]

NoKwargs == {}

\* the integer element type has IntBits bits (two's complement); numpy
\* arithmetic on it wraps around
IntBits == 8

Wrap(v) == ((v + 2^(IntBits - 1)) % 2^IntBits) - 2^(IntBits - 1)

Arith(dtype, v) == IF dtype = "int64" THEN Wrap(v) ELSE v

\* the unary minus of numpy on one element
Negate_Abs(dtype, v) == Arith(dtype, IF v < 0 THEN 0 - v ELSE v)

Negate(dtype, v) == Arith(dtype, 0 - v)

\* the value -x.data resp. x.data + y.data with its shape
TidyValue(opname, ins, m) ==
    IF opname = "negative"
    THEN Returned([shape |-> ins[1].shape,
                   data |-> [k \in 1..Size(ins[1].shape) |->
                                Negate(ins[1].dtype, Read(ins[1], m)[k])]])
    ELSE LET b == broadcast_shapes(<<ins[1].shape, ins[2].shape>>)
         IN  IF b.err # "none"
             THEN Raised("ValueError", Message("operands could not be broadcast together", <<>>))
             ELSE Returned([shape |-> b.val,
                            data |-> [k \in 1..Size(b.val) |->
                                Arith(result_type(ins[1].dtype, ins[2].dtype),
                                  ViewRead(Read(ins[1], m), ins[1].shape, b.val)[k]
                                  + ViewRead(Read(ins[2], m), ins[2].shape, b.val)[k])]])

\* out.data[:] = value
AssignAll(out, value, m) ==
    IF out.shape = <<>>
    THEN Done(Raised("IndexError", Message("too many indices for array", <<>>)), <<>>, m)
    ELSE IF broadcast_shapes(<<value.shape, out.shape>>) # Returned(out.shape)
    THEN Done(Raised("ValueError", Message("could not broadcast input array", <<>>)), <<>>, m)
    ELSE Done(Returned(None), <<>>,
              [m EXCEPT ![out.buf] = ViewRead(value.data, value.shape, out.shape)])

\* the line tidy_negative and tidy_add print first (mathlib.py 823-826,
\* 830-834): the type, shape and element type of each argument
PrintEvent(opname, ins, out) ==
    [ev |-> "print",
     text |-> IF opname = "negative" THEN "TN" ELSE "TA",
     args |-> [k \in DOMAIN (ins \o <<out>>) |->
                  <<(ins \o <<out>>)[k].cls, (ins \o <<out>>)[k].shape,
                    (ins \o <<out>>)[k].dtype>>]]

\* the array whose elements "out.data[:] = ..." assigns
WriteTarget_Input(ins, out) == ins[1]

WriteTarget(ins, out) == out

\* the same where the stub clears the output before it raises
TidyHook_ClearsOutput(self, opname, ins, out, kwargs, m) ==
    IF ~Implements(self, "tidy_" \o opname)
    THEN Done(_not_implemented(self, "tidy_" \o opname, ins[1]), <<>>,
              [m EXCEPT ![out.buf] = [k \in DOMAIN m[out.buf] |-> 0]])
    ELSE IF kwargs # NoKwargs
    THEN Done(Raised("TypeError", Message("got an unexpected keyword argument", <<>>)), <<>>, m)
    ELSE The({ The({ Done(w.res, <<PrintEvent(opname, ins, out)>>, w.mem) :
                     w \in {IF v.err # "none" THEN Done(v, <<>>, m)
                            ELSE AssignAll(WriteTarget(ins, out), v.val, m)} }) :
               v \in {TidyValue(opname, ins, m)} })

\* getattr (self, 'tidy_' + opname) (x, out, **kwargs): tidy_negative and
\* tidy_add where the provider defines them (they take no keyword options),
\* else the stub that _fill_tidied_library_type installs (mathlib.py 664)
TidyHook(self, opname, ins, out, kwargs, m) ==
    IF ~Implements(self, "tidy_" \o opname)
    THEN Done(_not_implemented(self, "tidy_" \o opname, ins[1]), <<>>, m)
    ELSE IF kwargs # NoKwargs
    THEN Done(Raised("TypeError", Message("got an unexpected keyword argument", <<>>)), <<>>, m)
    ELSE The({ The({ Done(w.res, <<PrintEvent(opname, ins, out)>>, w.mem) :
                     w \in {IF v.err # "none" THEN Done(v, <<>>, m)
                            ELSE AssignAll(WriteTarget(ins, out), v.val, m)} }) :
               v \in {TidyValue(opname, ins, m)} })

\* the last two lines of both adapters: the tidy call, then "return retval"
TidyCall(self, opname, ins, out, kwargs, retval, events, m) ==
    The({ Done(IF h.res.err = "none" THEN Returned(retval) ELSE h.res,
               events \o <<TidyEvent(self, opname, ins, out, kwargs)>> \o h.events,
               h.mem) :
          h \in {TidyHook(self, opname, ins, out, kwargs, m)} })

(***************************************************************************)
(* TidiedFunctionLibrary._tidy_std_unary (mathlib.py 545-594)              *)
(***************************************************************************)
\* "if osh != bsh: raise ValueError" lets a call go on when this holds
OutputShapeOk_Any(osh, bsh) == TRUE

OutputShapeOk(osh, bsh) == osh = bsh

\* lines 563-576: no output given
TidyUnaryNoOut(self, opname, x, kwargs, m) ==
    LET xsh == x.shape
        zerod == (xsh = <<>>)
        rx == IF zerod THEN reshape(self, x, <<1>>, "rs_x") ELSE Returned(x)
    IN  IF rx.err # "none" THEN Done(rx, <<>>, m)
        ELSE
        LET flags == registry[opname].flags
            out_dtype == IF "bool_result" \in flags THEN "bool" ELSE rx.val.dtype
            ev == <<NewEmptyEvent(self, xsh, out_dtype)>>
        IN  The({ The({ IF rr.err # "none" THEN Done(rr, ev, Allocate(m, out))
                        ELSE TidyCall(self, opname, <<rx.val>>, out, kwargs, rr.val,
                                      ev, Allocate(m, out)) :
                        rr \in {IF zerod THEN reshape(self, out, <<>>, "rs_ret")
                                ELSE Returned(out)} }) :
                  out \in {new_empty(self, xsh, out_dtype, m)} })

\* lines 577-591: an output is given
TidyUnaryOut(self, opname, x, out0, kwargs, m) ==
    LET co == typeconvert(self, out0, "tc_out")
    IN  IF co.err # "none" THEN Done(co, <<>>, m)
        ELSE
        LET out == co.val
            xsh == x.shape
            osh == out.shape
            b == broadcast_shapes(<<xsh, osh>>)
        IN  IF b.err # "none" THEN Done(b, <<>>, m)
            ELSE IF ~OutputShapeOk(osh, b.val)
            THEN Done(Raised("ValueError",
                        Message("output parameter must have final broadcasted shape", <<>>)), <<>>, m)
            ELSE
            LET bsh == b.val
                zerod == (bsh = <<>>)
                rx == IF zerod THEN reshape(self, x, <<1>>, "rs_x")
                      ELSE IF xsh # bsh THEN broadcast_to(self, x, bsh, "bc_x")
                      ELSE Returned(x)
            IN  IF rx.err # "none" THEN Done(rx, <<>>, m)
                ELSE
                LET ro == IF zerod THEN reshape(self, out, <<1>>, "rs_out")
                          ELSE Returned(out)
                IN  IF ro.err # "none" THEN Done(ro, <<>>, m)
                    ELSE TidyCall(self, opname, <<rx.val>>, ro.val, kwargs, out0, <<>>, m)

_tidy_std_unary(self, opname, x0, out0, kwargs, m) ==
    LET cx == typeconvert(self, x0, "tc_x")
    IN  IF cx.err # "none" THEN Done(cx, <<>>, m)
        ELSE IF out0 = None THEN TidyUnaryNoOut(self, opname, cx.val, kwargs, m)
        ELSE TidyUnaryOut(self, opname, cx.val, out0, kwargs, m)

(***************************************************************************)
(* TidiedFunctionLibrary._tidy_std_binary (mathlib.py 597-645)             *)
(***************************************************************************)
\* "if xsh != bsh: x = self.broadcast_to (x, bsh)"
BroadcastUp(self, x, bsh, site) ==
    IF x.shape # bsh THEN broadcast_to(self, x, bsh, site) ELSE Returned(x)

\* lines 603-623: no output given
TidyBinaryNoOut(self, opname, x, y, kwargs, m) ==
    LET b == broadcast_shapes(<<x.shape, y.shape>>)
    IN  IF b.err # "none" THEN Done(b, <<>>, m)
        ELSE
        LET bsh == b.val
            zerod == (bsh = <<>>)
            rx == IF zerod THEN reshape(self, x, <<1>>, "rs_x")
                  ELSE BroadcastUp(self, x, bsh, "bc_x")
        IN  IF rx.err # "none" THEN Done(rx, <<>>, m)
            ELSE
            LET ry == IF zerod THEN reshape(self, y, <<1>>, "rs_y")
                      ELSE BroadcastUp(self, y, bsh, "bc_y")
            IN  IF ry.err # "none" THEN Done(ry, <<>>, m)
                ELSE
                LET flags == registry[opname].flags
                    out_dtype == IF "bool_result" \in flags THEN "bool"
                                 ELSE result_type(rx.val.dtype, ry.val.dtype)
                    ev == <<NewEmptyEvent(self, bsh, out_dtype)>>
                IN  The({ The({ IF rr.err # "none" THEN Done(rr, ev, Allocate(m, out))
                                ELSE TidyCall(self, opname, <<rx.val, ry.val>>, out,
                                              kwargs, rr.val, ev, Allocate(m, out)) :
                                rr \in {IF zerod
                                        THEN reshape(self, out, <<>>, "rs_ret")
                                        ELSE Returned(out)} }) :
                          out \in {new_empty(self, bsh, out_dtype, m)} })

\* lines 624-642: an output is given
TidyBinaryOut(self, opname, x, y, out0, kwargs, m) ==
    LET co == typeconvert(self, out0, "tc_out")
    IN  IF co.err # "none" THEN Done(co, <<>>, m)
        ELSE
        LET out == co.val
            osh == out.shape
            b == broadcast_shapes(<<x.shape, y.shape, osh>>)
        IN  IF b.err # "none" THEN Done(b, <<>>, m)
            ELSE IF ~OutputShapeOk(osh, b.val)
            THEN Done(Raised("ValueError",
                        Message("output parameter must have final broadcasted shape", <<>>)), <<>>, m)
            ELSE
            LET bsh == b.val
                zerod == (bsh = <<>>)
                rx == IF zerod THEN reshape(self, x, <<1>>, "rs_x")
                      ELSE BroadcastUp(self, x, bsh, "bc_x")
            IN  IF rx.err # "none" THEN Done(rx, <<>>, m)
                ELSE
                LET ry == IF zerod THEN reshape(self, y, <<1>>, "rs_y")
                          ELSE BroadcastUp(self, y, bsh, "bc_y")
                IN  IF ry.err # "none" THEN Done(ry, <<>>, m)
                    ELSE
                    LET ro == IF zerod THEN reshape(self, out, <<1>>, "rs_out")
                              ELSE Returned(out)
                    IN  IF ro.err # "none" THEN Done(ro, <<>>, m)
                        ELSE TidyCall(self, opname, <<rx.val, ry.val>>, ro.val,
                                      kwargs, out0, <<>>, m)

_tidy_std_binary(self, opname, x0, y0, out0, kwargs, m) ==
    LET cx == typeconvert(self, x0, "tc_x")
    IN  IF cx.err # "none" THEN Done(cx, <<>>, m)
        ELSE
        LET cy == typeconvert(self, y0, "tc_y")
        IN  IF cy.err # "none" THEN Done(cy, <<>>, m)
            ELSE IF out0 = None
            THEN TidyBinaryNoOut(self, opname, cx.val, cy.val, kwargs, m)
            ELSE TidyBinaryOut(self, opname, cx.val, cy.val, out0, kwargs, m)

(***************************************************************************)
(* Looking an operation up on a provider and calling it with the           *)
(* positional arguments args: getattr (library, name) applied to args and kwargs.   *)
(***************************************************************************)
ArityError == Raised("TypeError", Message("wrong number of positional arguments", <<>>))

\* get_dtype, get_size and shape of the base class (mathlib.py 309-316); every
\* other name is the stub of _fill_base_library_type (mathlib.py 330-336)
BaseMethod(self, name, args, kwargs, m) ==
    IF name \in {"get_dtype", "get_size", "shape"}
    THEN IF Len(args) # 1 \/ kwargs # NoKwargs THEN Done(ArityError, <<>>, m)
         ELSE Done(Returned(CASE name = "get_dtype" -> args[1].dtype
                              [] name = "get_size" -> Size(args[1].shape)
                              [] OTHER -> args[1].shape), <<>>, m)
    ELSE Done(_not_implemented(self, name, args[1]), <<>>, m)

\* NumpyFunctionLibrary (mathlib.py 349-415): repvals takes x alone; what
\* numpy itself computes is not modelled and stands as an opaque value
NumpyMethod(name, args, kwargs, m) ==
    IF name = "repvals" /\ (Len(args) # 1 \/ kwargs # NoKwargs)
    THEN Done(ArityError, <<>>, m)
    ELSE Done(Returned([by |-> "numpy", name |-> name, args |-> args,
                        kwargs |-> kwargs]), <<>>, m)

\* the methods of a tidied provider: what its class defines, else the adapters
\* installed by _fill_tidied_library_type (mathlib.py 652-663), else the
\* base class
TidiedMethod(self, name, args, kwargs, m) ==
    LET signature == common_interface_functions[name].signature
    IN  IF Implements(self, name)
        THEN IF Len(args) # 2 \/ kwargs # NoKwargs THEN Done(ArityError, <<>>, m)
             ELSE Done(IF name = "reshape"
                       THEN reshape(self, args[1], args[2], "rs")
                       ELSE broadcast_to(self, args[1], args[2], "bc"), <<>>, m)
        ELSE IF signature = "std_unary"
        THEN IF Len(args) \notin {1, 2} THEN Done(ArityError, <<>>, m)
             ELSE _tidy_std_unary(self, name, args[1],
                                  IF Len(args) = 2 THEN args[2] ELSE None, kwargs, m)
        ELSE IF signature = "std_binary"
        THEN IF Len(args) \notin {2, 3} THEN Done(ArityError, <<>>, m)
             ELSE _tidy_std_binary(self, name, args[1], args[2],
                                   IF Len(args) = 3 THEN args[3] ELSE None, kwargs, m)
        ELSE BaseMethod(self, name, args, kwargs, m)

\* getattr (library, name) fails for a name that is neither in the registry
\* nor defined by the provider's class
ProviderCall(library, name, args, kwargs, m) ==
    IF name \notin OpNames /\ ~Implements(library, name)
    THEN Done(Raised("AttributeError",
                     Message("'%s' object has no attribute '%s'", <<library, name>>)),
              <<>>, m)
    ELSE IF library = "numpy_library" THEN NumpyMethod(name, args, kwargs, m)
    ELSE IF library \in TidiedLibraries THEN TidiedMethod(library, name, args, kwargs, m)
    ELSE BaseMethod(library, name, args, kwargs, m)

(***************************************************************************)
(* The dispatchers and the generated wrappers (mathlib.py 466-503).        *)
(***************************************************************************)
InvokeEvent(library, name, args, kwargs) ==
    [ev |-> "invoke", lib |-> library, name |-> name, args |-> args, kwargs |-> kwargs]

\* getattr (library, name) (...) at the end of each dispatcher
Invoke(library, name, args, kwargs, events, m) ==
    The({Done(r.res,
              events \o <<InvokeEvent(library, name, args, kwargs)>> \o r.events,
              r.mem) : r \in {ProviderCall(library, name, args, kwargs, m)}})

\* the operands _dispatch_std_unary resolves the provider for
UnaryResolved_InputOnly(x, out) == <<x>>

UnaryResolved(x, out) == IF out = None THEN <<x>> ELSE <<x, out>>

_dispatch_std_unary(name, x, out, kwargs, m) ==
    The({IF g.res.err # "none" THEN Done(g.res, g.events, m)
         ELSE Invoke(g.res.val, name, <<x, out>>, kwargs, g.events, m) :
            g \in {get_library_for(UnaryResolved(x, out))}})

\* the operands _dispatch_std_binary resolves the provider for
BinaryResolved(x, y, out) == IF out = None THEN <<x, y>> ELSE <<x, y, out>>

_dispatch_std_binary(name, x, y, out, kwargs, m) ==
    The({IF g.res.err # "none" THEN Done(g.res, g.events, m)
         ELSE Invoke(g.res.val, name, <<x, y, out>>, kwargs, g.events, m) :
            g \in {get_library_for(BinaryResolved(x, y, out))}})

_dispatch_other_1(name, args, kwargs, m) ==
    The({IF g.res.err # "none" THEN Done(g.res, g.events, m)
         ELSE Invoke(g.res.val, name, args, kwargs, g.events, m) :
            g \in {get_library_for(<<args[1]>>)}})

_dispatchers ==
    [sig \in Signatures |->
        CASE sig = "std_unary" -> "_dispatch_std_unary"
          [] sig = "std_binary" -> "_dispatch_std_binary"
          [] OTHER -> "_dispatch_other_1"]

\* partial (_dispatchers[fs.signature], fs.name)
WrapperFor_Unary(fs) == [dispatcher |-> "_dispatch_std_unary", name |-> fs.name]

WrapperFor(fs) == [dispatcher |-> _dispatchers[fs.signature], name |-> fs.name]

\* _create_wrappers: the module namespace after line 503
wrappers == [n \in OpNames |-> WrapperFor(common_interface_functions[n])]

\* w applied to args and kwargs for a generated wrapper w: the positional arguments
\* are bound to (x, out=None), (x, y, out=None) or (x, and the rest)
CallWrapper(w, args, kwargs, m) ==
    CASE w.dispatcher = "_dispatch_std_unary" ->
            IF Len(args) \notin {1, 2} THEN Done(ArityError, <<>>, m)
            ELSE _dispatch_std_unary(w.name, args[1],
                     IF Len(args) = 2 THEN args[2] ELSE None, kwargs, m)
      [] w.dispatcher = "_dispatch_std_binary" ->
            IF Len(args) \notin {2, 3} THEN Done(ArityError, <<>>, m)
            ELSE _dispatch_std_binary(w.name, args[1], args[2],
                     IF Len(args) = 3 THEN args[3] ELSE None, kwargs, m)
      [] OTHER -> _dispatch_other_1(w.name, args, kwargs, m)

(***************************************************************************)
(* The operators of MathlibDelegatingObject (mathlib.py 712-800): the      *)
(* method, the way it dispatches and the name it asks the provider for.    *)
(***************************************************************************)
Op(form, kind, name) == [form |-> form, kind |-> kind, name |-> name]

Operators ==
    { Op("__lt__", "binary", "less"), Op("__le__", "binary", "less_equal"),
      Op("__eq__", "binary", "equal"), Op("__ne__", "binary", "not_equal"),
      Op("__gt__", "binary", "greater"), Op("__ge__", "binary", "greater_equal"),
      Op("__add__", "binary", "add"), Op("__sub__", "binary", "subtract"),
      Op("__mul__", "binary", "multiply"),
      Op("__floordiv__", "binary", "floor_divide"),
      Op("__mod__", "binary", "mod"), Op("__pow__", "pow", "power"),
      Op("__lshift__", "binary", "left_shift"),
      Op("__rshift__", "binary", "right_shift"),
      Op("__and__", "binary", "bitwise_and"), Op("__xor__", "binary", "bitwise_xor"),
      Op("__or__", "binary", "bitwise_or"), Op("__div__", "binary", "divide"),
      Op("__truediv__", "binary", "true_divide"),
      Op("__radd__", "reflected", "add"), Op("__rsub__", "reflected", "subtract"),
      Op("__rmul__", "reflected", "multiply"), Op("__rdiv__", "reflected", "divide"),
      Op("__rtruediv__", "reflected", "true_divide"),
      Op("__rfloordiv__", "reflected", "floor_divide"),
      Op("__rmod__", "reflected", "mod"), Op("__rpow__", "rpow", "power"),
      Op("__rlshift__", "reflected", "left_shift"),
      Op("__rrshift__", "reflected", "right_shift"),
      Op("__rand__", "reflected", "bitwise_and"),
      Op("__rxor__", "reflected", "bitwise_xor"),
      Op("__ror__", "reflected", "bitwise_or"),
      Op("__iadd__", "inplace", "add"), Op("__isub__", "inplace", "subtract"),
      Op("__imul__", "inplace", "multiply"), Op("__idiv__", "inplace", "divide"),
      Op("__itruediv__", "inplace", "true_divide"),
      Op("__ifloordiv__", "inplace", "floor_divide"),
      Op("__imod__", "inplace", "mod"), Op("__ipow__", "ipow", "power"),
      Op("__ilshift__", "inplace", "left_shift"),
      Op("__irshift__", "inplace", "right_shift"),
      Op("__iand__", "inplace", "bitwise_and"),
      Op("__ixor__", "inplace", "bitwise_xor"),
      Op("__ior__", "inplace", "bitwise_or"),
      Op("__neg__", "unary", "negative"), Op("__abs__", "unary", "absolute"),
      Op("__invert__", "unary", "invert") }

\* the operands an operator method resolves the provider for
OperatorResolved(kind, self, other) ==
    IF kind = "reflected" THEN <<other, self>> ELSE <<self, other>>

\* the arguments it calls the provider's operation with
OperatorPassed_NoOutput(kind, self, other) ==
    IF kind \in {"reflected", "rpow"} THEN <<other, self>> ELSE <<self, other>>

OperatorPassed(kind, self, other) ==
    CASE kind \in {"reflected", "rpow"} -> <<other, self>>
      [] kind \in {"inplace", "ipow"} -> <<self, other, self>>
      [] kind = "unary" -> <<self>>
      [] OTHER -> <<self, other>>

\* self.<form> (other) resp. self.<form> (other, modulo) resp. self.<form> ()
Operator(op, self, other, modulo, m) ==
    IF op.kind \in {"pow", "rpow", "ipow"} /\ modulo # None
    THEN Done(Raised("NotImplementedError", Message("", <<>>)), <<>>, m)
    ELSE The({IF g.res.err # "none" THEN Done(g.res, g.events, m)
              ELSE Invoke(g.res.val, op.name, OperatorPassed(op.kind, self, other),
                          NoKwargs, g.events, m) :
                g \in {IF op.kind = "unary"
                       THEN Outcome(Returned(AdvertisedLibrary(self)), <<>>)
                       ELSE get_library_for(OperatorResolved(op.kind, self, other))}})

(***************************************************************************)
(* The callers' arguments.                                                 *)
(***************************************************************************)
ArgIds == <<"a1", "a2", "a3", "a4">>

ArgBufs == <<"b1", "b2", "b3", "b4">>

\* the i-th array a caller passes: an array with its own buffer
ArgOf(i, cls, shape, dtype) == Obj(ArgIds[i], cls, shape, shape, dtype, ArgBufs[i])

\* an int64 array
Arg(i, cls, shape) == ArgOf(i, cls, shape, "int64")

\* the buffer of the i-th array holds 10*i + 1, 10*i + 2, ...
ArgData(i, shape) == [k \in 1..Size(shape) |-> 10 * i + k]

\* the buffers of a list of caller arrays (an array passed twice is one array)
ArgMem(args) ==
    [b \in {args[k].buf : k \in DOMAIN args} \ {"none"} |->
        LET k == CHOOSE k \in DOMAIN args : args[k].buf = b
            i == CHOOSE i \in DOMAIN ArgBufs : ArgBufs[i] = b
        IN  ArgData(i, args[k].base)]

\* the types of the arguments of the wrapper calls
DispatchClasses == {"ndarray", "TestArrayWrapper", "ClientA", "ClientB", "dict"}

\* a wrapper is called with 1..MaxArgs positional arguments
MaxArgs == 3

\* the argument lists of the wrapper calls: arrays of shape (2,) of any of
\* the types, and for the irregular operations one array and its extra
\* arguments (none, or a shape)
ArrayArgs ==
    UNION {{[i \in 1..n |-> Arg(i, cs[i], <<2>>)] : cs \in [1..n -> DispatchClasses]} :
              n \in 1..MaxArgs}

IrregularArgs ==
    {<<Arg(1, c, <<2>>)>> \o extra :
        c \in DispatchClasses, extra \in {<<>>, <<<<1, 2>>>>, <<<<3>>>>}}

DispatchArgs(name) ==
    IF common_interface_functions[name].signature = "other_1"
    THEN IrregularArgs ELSE ArrayArgs

\* the arrays among the arguments of a call of the wrapper of name
ArraysOf(name, args) ==
    IF common_interface_functions[name].signature = "other_1"
    THEN <<args[1]>> ELSE args

KwargChoices == {NoKwargs, {<<"casting", "unsafe">>}}

\* the operations, shapes and argument lists of the direct calls of a tidied
\* provider's methods
TidyNames == {"negative", "isfinite", "add", "equal"}

OperandShapes == {<<>>, <<1>>, <<2>>, <<1, 2>>, <<3>>}

\* the element types of the i-th array: inputs are integer or floating
\* point, outputs integer
OperandTypes(i) == IF i = 3 THEN {"int64"} ELSE {"int64", "float64"}

TidyOperands(self, i) ==
    {ArgOf(i, c, sh, dt) : c \in {"ndarray", WrapperOf(self)}, sh \in OperandShapes,
                           dt \in OperandTypes(i)}

\* x [, y] and the output: none, another array, or one of the inputs again
TidyArgs(self, name) ==
    IF common_interface_functions[name].signature = "std_unary"
    THEN {<<x, out>> : x \in TidyOperands(self, 1),
                       out \in {None} \cup TidyOperands(self, 3)}
         \cup {<<x, x>> : x \in TidyOperands(self, 1)}
    ELSE {<<x, y, out>> : x \in TidyOperands(self, 1), y \in TidyOperands(self, 2),
                          out \in {None} \cup TidyOperands(self, 3)}
         \cup {<<x, y, x>> : x \in TidyOperands(self, 1), y \in TidyOperands(self, 2)}
         \cup {<<x, y, y>> : x \in TidyOperands(self, 1), y \in TidyOperands(self, 2)}

\* the objects an operator is applied to: a wrapper of one of the tidied
\* providers on the left, and on the right a wrapper, an array, a number or
\* something no provider takes
OperatorSelves ==
    {Arg(1, c, sh) : c \in {"TestArrayWrapper", "ClientA", "ClientB"},
                     sh \in {<<1>>, <<2>>}}

OperatorOthers ==
    {Arg(2, c, sh) : c \in {"ndarray", "TestArrayWrapper", "ClientA", "ClientB"},
                     sh \in {<<2>>, <<1, 2>>}}
    \cup {Arg(2, "ndarray", <<>>), Arg(2, "float", <<>>), Arg(2, "dict", <<>>)}

\* the third argument of pow (): none, or the number 3
Moduli == {None, Arg(3, "float", <<>>)}

\* the applications of an operator: unary ones take no operand, and only the
\* power operators take a modulus
OperatorOperands(op) ==
    CASE op.kind = "unary" -> {<<self, None, None>> : self \in OperatorSelves}
      [] op.kind \in {"pow", "rpow", "ipow"} ->
            {<<self, other, modulo>> :
                self \in OperatorSelves, other \in OperatorOthers, modulo \in Moduli}
      [] OTHER -> {<<self, other, None>> :
                      self \in OperatorSelves, other \in OperatorOthers}

\* the round trip through negative: arrays of one or more dimensions whose
\* elements are the extreme and the smallest integers of the element type
MinInt == 0 - 2^(IntBits - 1)

MaxInt == 2^(IntBits - 1) - 1

RoundTripValues == {MinInt, -1, 0, 1, MaxInt}

RoundTripShapes == {<<1>>, <<2>>, <<1, 2>>, <<2, 1>>}

(***************************************************************************)
(* The provider classes after the module is imported: what the class       *)
(* bodies define and what _fill_base_library_type (mathlib.py 330-338),    *)
(* _fill_numpy_library_type (404-415) and _fill_tidied_library_type        *)
(* (652-666) add to them.  An attribute is an "implementation" (a method   *)
(* of a class body or a numpy function), an "adapter" (one of the two      *)
(* tidying adapters bound to a name) or a "stub" (_not_implemented bound   *)
(* to a name).                                                             *)
(***************************************************************************)
ClassNames ==
    {"MathFunctionLibrary", "NumpyFunctionLibrary", "TidiedFunctionLibrary",
     "TestWrappedLibrary"}

\* the methods the body of a class defines
ClassBody(cls) ==
    CASE cls = "MathFunctionLibrary" ->
            {"accepts", "new_empty", "typeconvert", "get_dtype", "get_size",
             "shape", "_not_implemented"}
      [] cls = "NumpyFunctionLibrary" ->
            {"accepts", "new_empty", "typeconvert", "cmask", "get_dtype",
             "get_size", "repvals"}
      [] cls = "TidiedFunctionLibrary" -> {"_tidy_std_unary", "_tidy_std_binary"}
      [] OTHER ->
            {"accepts", "new_empty", "typeconvert", "broadcast_to",
             "tidy_negative", "tidy_add"}

\* a class and its base classes, in the order attributes are looked up
Bases(cls) ==
    CASE cls = "MathFunctionLibrary" -> <<cls>>
      [] cls = "TestWrappedLibrary" ->
            <<cls, "TidiedFunctionLibrary", "MathFunctionLibrary">>
      [] OTHER -> <<cls, "MathFunctionLibrary">>

\* the registry names that are functions of the newest numpy; an older numpy
\* lacks some of them
NumpyFunctions ==
    {n \in OpNames : "has_numpy_impl" \in common_interface_functions[n].flags}

\* the names _fill_base_library_type sets to a stub
_fill_base_library_type ==
    {n \in OpNames : n \notin ClassBody("MathFunctionLibrary")}

\* the names _fill_numpy_library_type sets to the function of numpy np
_fill_numpy_library_type(np) == {n \in OpNames : n \in np}

\* the same without the tidy_<name> stubs
_fill_tidied_library_type_NoHooks ==
    [adapters |-> {n \in OpNames : common_interface_functions[n].signature
                                      \in {"std_unary", "std_binary"}},
     hooks |-> {}]

\* the names _fill_tidied_library_type sets to an adapter and to a stub
_fill_tidied_library_type ==
    [adapters |-> {n \in OpNames : common_interface_functions[n].signature
                                      \in {"std_unary", "std_binary"}},
     hooks |-> {"tidy_" \o n : n \in
                  {o \in OpNames : common_interface_functions[o].signature
                                      \in {"std_unary", "std_binary"}}}]

\* the attribute name in the dictionary of the class itself
ClassDict(cls, name, np) ==
    CASE cls = "MathFunctionLibrary" ->
            IF name \in ClassBody(cls) THEN "implementation"
            ELSE IF name \in _fill_base_library_type THEN "stub" ELSE "absent"
      [] cls = "NumpyFunctionLibrary" ->
            IF name \in _fill_numpy_library_type(np) \cup ClassBody(cls)
            THEN "implementation" ELSE "absent"
      [] cls = "TidiedFunctionLibrary" ->
            IF name \in _fill_tidied_library_type.adapters THEN "adapter"
            ELSE IF name \in _fill_tidied_library_type.hooks THEN "stub"
            ELSE IF name \in ClassBody(cls) THEN "implementation" ELSE "absent"
      [] OTHER -> IF name \in ClassBody(cls) THEN "implementation" ELSE "absent"

\* getattr (library, name) for an instance of cls: the first class in the
\* lookup order that has the attribute
RECURSIVE LookupFrom(_, _, _, _)
LookupFrom(bases, name, np, i) ==
    IF i > Len(bases)
    THEN Raised("AttributeError",
                Message("'%s' object has no attribute '%s'", <<bases[1], name>>))
    ELSE IF ClassDict(bases[i], name, np) # "absent"
         THEN Returned(ClassDict(bases[i], name, np))
         ELSE LookupFrom(bases, name, np, i + 1)

Lookup(cls, name, np) == LookupFrom(Bases(cls), name, np, 1)

\* the numpy functions an installation may lack: none, the one looked up,
\* or all of them
Lacking(op) == {{}, {op} \cap NumpyFunctions, NumpyFunctions}

(***************************************************************************)
(* oo_helpers.partialmethod (oo_helpers.py 283-355).  The wrapped func is  *)
(* of one of these kinds:                                                  *)
(*   function       a plain function: a descriptor whose __get__ binds obj *)
(*   callable       a callable object without __get__                      *)
(*   classmethod, staticmethod   descriptors around a function, not        *)
(*                  callable themselves                                    *)
(*   int            neither callable nor a descriptor                      *)
(* Arguments are labelled values, keywords functions from names to values. *)
(***************************************************************************)
FuncKinds == {"function", "callable", "classmethod", "staticmethod", "int"}

Func(kind) == [type |-> kind, name |-> "f"]

\* presets and call-time arguments have 0..MaxPartialArgs positional values
MaxPartialArgs == 2

Labelled(tag, n) == [i \in 1..n |-> <<tag, i>>]

ArgLists(tag) == {Labelled(tag, n) : n \in 0..MaxPartialArgs}

KeywordNames == {"k", "j"}

\* the keyword dictionaries whose values carry the label tag
KeywordSets(tag) == UNION {[ks -> {tag}] : ks \in SUBSET KeywordNames}

\* d.copy () followed by update (e)
DictUpdate_KeepOld(d, e) ==
    [k \in DOMAIN d \cup DOMAIN e |-> IF k \in DOMAIN d THEN d[k] ELSE e[k]]

DictUpdate(d, e) ==
    [k \in DOMAIN d \cup DOMAIN e |-> IF k \in DOMAIN e THEN e[k] ELSE d[k]]

callable(func) == func.type \in {"function", "callable"}

\* hasattr (func, "__get__")
IsDescriptor(func) ==
    func.type \in {"function", "classmethod", "staticmethod", "partialmethod"}

\* partialmethod.__init__ (lines 291-309)
partialmethod(func, args, keywords) ==
    IF ~callable(func) /\ ~IsDescriptor(func)
    THEN Raised("TypeError", Message("{!r} is not callable or a descriptor", <<func>>))
    ELSE IF func.type = "partialmethod"
    THEN Returned([type |-> "partialmethod", func |-> func.func,
                   args |-> func.args \o args,
                   keywords |-> DictUpdate(func.keywords, keywords)])
    ELSE Returned([type |-> "partialmethod", func |-> func, args |-> args,
                   keywords |-> keywords])

\* an invocation of the function f stands behind
CalledEvent(func, args, keywords) ==
    [ev |-> "called", func |-> func.name, args |-> args, keywords |-> keywords]

\* self.func.__get__ (obj, cls): what the first positional arguments of the
\* underlying function become
Receiver(func, obj, cls) ==
    CASE func.type = "function" -> <<obj>>
      [] func.type = "classmethod" -> <<cls>>
      [] OTHER -> <<>>

\* partial (new_func, *self.args, **self.keywords) called with args and
\* keywords (line 342)
PartialCall(self, obj, cls, args, keywords) ==
    <<CalledEvent(self.func, Receiver(self.func, obj, cls) \o self.args \o args,
                  DictUpdate(self.keywords, keywords))>>

\* _method bound to obj and called with args and keywords (lines 323-329)
_method(self, obj, args, keywords) ==
    <<CalledEvent(self.func, <<obj>> \o self.args \o args,
                  DictUpdate(self.keywords, keywords))>>

\* obj.m (*args, **keywords) for a class attribute m that is the
\* partialmethod self: __get__ (lines 334-351), then the call of its result
PartialMethodCall(self, obj, cls, args, keywords) ==
    IF IsDescriptor(self.func)
    THEN PartialCall(self, obj, cls, args, keywords)
    ELSE _method(self, obj, args, keywords)

(***************************************************************************)
(* oo_helpers.method_decorator (oo_helpers.py 37-90).  A decorator object  *)
(* has the fields func, obj, cls and method_type; "None" stands for None.  *)
(***************************************************************************)
\* what a decorator wraps: a plain function, or a classmethod or
\* staticmethod object around one
WrappedKinds == {"function", "classmethod", "staticmethod"}

\* the instances and classes of a reference: none, an instance of MyClass
\* and one of a subclass; none (an explicit call of __get__), MyClass and
\* the subclass
ReferenceObjects == {"None", "my_instance", "sub_instance"}

ReferenceClasses == {"None", "MyClass", "SubClass"}

\* method_decorator.__init__ (lines 39-42)
method_decorator(func, obj, cls, method_type) ==
    [func |-> func, obj |-> obj, cls |-> cls, method_type |-> method_type]

\* @my_decorator applied to func
Decorated(kind) == method_decorator([type |-> kind, name |-> "f"], "None", "None", "function")

\* lines 55-61
MethodType(func) ==
    IF func.type = "staticmethod" THEN "staticmethod"
    ELSE IF func.type = "classmethod" THEN "classmethod"
    ELSE "instancemethod"

\* self.func.__get__ (obj, cls): a function or a method binds the instance,
\* a classmethod the class, and a staticmethod gives its function
FuncGet(func, obj, cls) ==
    CASE func.type = "staticmethod" -> [type |-> "function", name |-> func.name]
      [] func.type = "classmethod" ->
            [type |-> "method", name |-> func.name, im_self |-> cls]
      [] func.type = "method" -> func
      [] OTHER -> [type |-> "method", name |-> func.name, im_self |-> obj]

\* method_decorator.__get__ (lines 47-69): the object the reference yields
method_decorator__get__(self, obj, cls) ==
    IF self.obj = obj /\ self.cls = cls THEN self
    ELSE method_decorator(FuncGet(self.func, obj, cls), obj, cls, MethodType(self.func))

\* the same, had __get__ changed the attributes of the current instance
DecoratorAfter_Updated(self, obj, cls) == method_decorator__get__(self, obj, cls)

\* the decorator after its __get__: __get__ and the empty fixup (lines 44-45)
\* assign to none of its attributes
DecoratorAfter(self, obj, cls) == self

(***************************************************************************)
(* oo_helpers.indexerproperty (oo_helpers.py 364-400).  A function is      *)
(* known by its name; "None" stands for None.                              *)
(***************************************************************************)
\* the longest chain of setter and deleter registrations in a class body
MaxRegistrations == 2

\* @prop.setter and @prop.deleter lines of a class body
Registrations ==
    {<<"setter", "set_item">>, <<"setter", "set_other">>, <<"deleter", "del_item">>}

\* indexerproperty.__init__ (lines 386-389)
indexerproperty(getter) == [_getter |-> getter, _setter |-> "None", _deleter |-> "None"]

\* the same, had the registration been dropped
setter_Dropped(self, thesetter) == self

\* indexerproperty.setter (lines 394-396)
setter(self, thesetter) == [self EXCEPT !._setter = thesetter]

\* indexerproperty.deleter (lines 398-400)
deleter(self, thedeleter) == [self EXCEPT !._deleter = thedeleter]

\* the descriptor after the first i registrations of a class body
RECURSIVE Register(_, _, _)
Register(self, regs, i) ==
    IF i = 0 THEN self
    ELSE IF regs[i][1] = "setter" THEN setter(Register(self, regs, i - 1), regs[i][2])
    ELSE deleter(Register(self, regs, i - 1), regs[i][2])

\* indexerproperty.__get__ (lines 391-392) and indexerproperty_Helper.__init__
indexerproperty__get__(self, instance) == [_instance |-> instance, _descriptor |-> self]

\* a call of one of the registered functions; its result is the caller's
CallRegistered(f, args) ==
    Outcome(Returned([result_of |-> f]), <<CalledEvent([name |-> f], args, <<>>)>>)

\* indexerproperty_Helper.__getitem__ (lines 369-370)
__getitem__(self, key) == CallRegistered(self._descriptor._getter, <<self._instance, key>>)

\* indexerproperty_Helper.__setitem__ (lines 372-375)
__setitem__(self, key, value) ==
    IF self._descriptor._setter = "None"
    THEN Outcome(Raised("TypeError",
                        Message("item assignment is not allowed by this property", <<>>)),
                 <<>>)
    ELSE CallRegistered(self._descriptor._setter, <<self._instance, key, value>>)

\* indexerproperty_Helper.__delitem__ (lines 377-380)
__delitem__(self, key) ==
    IF self._descriptor._deleter = "None"
    THEN Outcome(Raised("TypeError",
                        Message("item deletion is not allowed by this property", <<>>)),
                 <<>>)
    ELSE CallRegistered(self._descriptor._deleter, <<self._instance, key>>)

(***************************************************************************)
(* The program between calls.                                              *)
(***************************************************************************)
NoCall == [fn |-> "none"]

\* the provider singletons: numpy_library, the provider of TestArrayWrapper,
\* the callers' providers and a bare MathFunctionLibrary
Libraries == {"numpy_library", "MathFunctionLibrary"} \cup TidiedLibraries

\* the module's state: registry holds the entries of the dictionary
\* common_interface_functions, singletons the instance attributes of each
\* provider (the provider classes set none)
ModuleState == [registry |-> registry, singletons |-> singletons]

\* the same after a call that caches something on the test provider
ModuleAfter_Cached(state) ==
    [state EXCEPT !.singletons["TestWrappedLibrary"] = {"cache"}]

\* the module's state after a call: get_library_for, the dispatchers, the
\* adapters, the providers' methods and the operators assign neither to an
\* entry of common_interface_functions nor to an attribute of a provider
ModuleAfter(state) == state

KeepModule ==
    \E after \in {ModuleAfter(ModuleState)} :
        /\ registry' = after.registry
        /\ singletons' = after.singletons

\* the state after the module is imported
Init ==
    /\ pc = "idle"
    /\ call = NoCall
    /\ ret = Returned(<<>>)
    /\ trace = <<>>
    /\ mem = NoMem
    /\ registry = common_interface_functions
    /\ singletons = [l \in Libraries |-> {}]

\* a caller evaluates broadcast_shapes of some shapes
CallBroadcastShapes ==
    /\ pc = "idle"
    /\ \E shapes \in ShapeLists :
         /\ call' = [fn |-> "broadcast_shapes", shapes |-> shapes]
         /\ ret' = broadcast_shapes(shapes)
    /\ trace' = <<>>
    /\ mem' = NoMem
    /\ pc' = "done"
    /\ KeepModule

\* a caller evaluates get_library_for of some objects
CallGetLibraryFor ==
    /\ pc = "idle"
    /\ \E objects \in OperandLists :
         \E o \in {get_library_for(objects)} :
             /\ call' = [fn |-> "get_library_for", objects |-> objects]
             /\ ret' = o.res
             /\ trace' = o.events
    /\ mem' = NoMem
    /\ pc' = "done"
    /\ KeepModule

\* a caller calls the generated wrapper of a registered operation
CallModuleWrapper ==
    /\ pc = "idle"
    /\ \E name \in OpNames, kwargs \in KwargChoices :
         \E args \in DispatchArgs(name) :
            \E m0 \in {ArgMem(ArraysOf(name, args))} :
            \E r \in {CallWrapper(wrappers[name], args, kwargs, m0)} :
                /\ call' = [fn |-> "wrapper", name |-> name, args |-> args,
                            kwargs |-> kwargs, mem |-> m0]
                /\ ret' = r.res
                /\ trace' = r.events
                /\ mem' = r.mem
    /\ pc' = "done"
    /\ KeepModule

\* a caller calls an operation of a tidied provider directly, as the
\* operators of MathlibDelegatingObject do after resolution
CallTidied ==
    /\ pc = "idle"
    /\ \E self \in TidiedLibraries, name \in TidyNames :
         \E args \in TidyArgs(self, name) :
            \E m0 \in {ArgMem(args)} :
            \E r \in {ProviderCall(self, name, args, NoKwargs, m0)} :
                /\ call' = [fn |-> "tidied", lib |-> self, name |-> name,
                            args |-> args, kwargs |-> NoKwargs, mem |-> m0]
                /\ ret' = r.res
                /\ trace' = r.events
                /\ mem' = r.mem
    /\ pc' = "done"
    /\ KeepModule

\* a caller applies an operator to an object that inherits
\* MathlibDelegatingObject
CallOperator ==
    /\ pc = "idle"
    /\ \E op \in Operators :
         \E a \in OperatorOperands(op) :
            \E m0 \in {ArgMem(SelectSeq(<<a[1], a[2]>>, LAMBDA o : o # None))} :
            \E r \in {Operator(op, a[1], a[2], a[3], m0)} :
                /\ call' = [fn |-> "operator", form |-> op.form, kind |-> op.kind,
                            name |-> op.name, self |-> a[1], other |-> a[2],
                            modulo |-> a[3], mem |-> m0]
                /\ ret' = r.res
                /\ trace' = r.events
                /\ mem' = r.mem
    /\ pc' = "done"
    /\ KeepModule

\* a caller wraps an integer array and takes its negative
CallNegative ==
    /\ pc = "idle"
    /\ \E sh \in RoundTripShapes :
         \E data \in [1..Size(sh) -> RoundTripValues] :
            \E x \in {Arg(1, "TestArrayWrapper", sh)} :
            \E m0 \in {"b1" :> data} :
            \E r \in {ProviderCall("TestWrappedLibrary", "negative", <<x, None>>,
                                   NoKwargs, m0)} :
                /\ call' = [fn |-> "roundtrip", lib |-> "TestWrappedLibrary",
                            name |-> "negative", args |-> <<x, None>>,
                            kwargs |-> NoKwargs, mem |-> m0, round |-> 1,
                            origin |-> x, before |-> m0]
                /\ ret' = r.res
                /\ trace' = r.events
                /\ mem' = r.mem
    /\ pc' = "done"
    /\ KeepModule

\* the caller takes the negative of the result
CallNegativeAgain ==
    /\ pc = "done"
    /\ call.fn = "roundtrip"
    /\ call.round = 1
    /\ ret.err = "none"
    /\ \E r \in {ProviderCall(call.lib, "negative", <<ret.val, None>>, NoKwargs, mem)} :
            /\ call' = [call EXCEPT !.args = <<ret.val, None>>, !.mem = mem,
                                    !.round = 2]
            /\ ret' = r.res
            /\ trace' = r.events
            /\ mem' = r.mem
    /\ pc' = "done"
    /\ KeepModule

\* a caller looks a registry operation, or its tidy_ hook, up on an instance
\* of a provider class
CallGetattr ==
    /\ pc = "idle"
    /\ \E cls \in ClassNames, op \in OpNames, hook \in BOOLEAN :
         \E absent \in Lacking(op) :
            \E name \in {IF hook THEN "tidy_" \o op ELSE op} :
                /\ call' = [fn |-> "getattr", cls |-> cls, op |-> op, hook |-> hook,
                            name |-> name, absent |-> absent]
                /\ ret' = Lookup(cls, name, NumpyFunctions \ absent)
    /\ trace' = <<>>
    /\ mem' = NoMem
    /\ pc' = "done"
    /\ KeepModule

\* a class defines m = partialmethod (f, ...), or m = partialmethod
\* (partialmethod (f, ...), ...), and a caller calls obj.m (...)
CallPartialMethod ==
    /\ pc = "idle"
    /\ \E kind \in FuncKinds, nested \in BOOLEAN :
       \E iargs \in (IF nested THEN ArgLists("inner") ELSE {<<>>}),
          ikw \in (IF nested THEN KeywordSets("inner") ELSE {<<>>}),
          pargs \in ArgLists("preset"), pkw \in KeywordSets("preset"),
          cargs \in ArgLists("call"), ckw \in KeywordSets("call") :
         \E inner \in {IF nested THEN partialmethod(Func(kind), iargs, ikw)
                       ELSE Returned(Func(kind))} :
         \E pm \in {IF inner.err # "none" THEN inner
                    ELSE partialmethod(inner.val, pargs, pkw)} :
            /\ call' = [fn |-> "partialmethod", kind |-> kind, nested |-> nested,
                        inner |-> [args |-> iargs, keywords |-> ikw],
                        preset |-> [args |-> pargs, keywords |-> pkw],
                        args |-> cargs, keywords |-> ckw,
                        obj |-> "obj", cls |-> "Cls"]
            /\ IF pm.err # "none"
               THEN ret' = pm /\ trace' = <<>>
               ELSE /\ ret' = Returned("f's result")
                    /\ trace' = PartialMethodCall(pm.val, "obj", "Cls", cargs, ckw)
    /\ mem' = NoMem
    /\ pc' = "done"
    /\ KeepModule

\* a caller references an attribute that a class body defined with a
\* decorator: obj.f or cls.f, or an explicit call of __get__
CallReference ==
    /\ pc = "idle"
    /\ \E kind \in WrappedKinds, obj \in ReferenceObjects, cls \in ReferenceClasses :
         \E original \in {Decorated(kind)} :
            /\ call' = [fn |-> "reference", kind |-> kind, obj |-> obj, cls |-> cls,
                        round |-> 1, self |-> original, original |-> original]
            /\ ret' = Returned(method_decorator__get__(original, obj, cls))
            /\ mem' = [self |-> DecoratorAfter(original, obj, cls),
                       original |-> DecoratorAfter(original, obj, cls)]
    /\ trace' = <<>>
    /\ pc' = "done"
    /\ KeepModule

\* the caller references the object it got once more, as an attribute of
\* another object or class
CallReferenceAgain ==
    /\ pc = "done"
    /\ call.fn = "reference"
    /\ call.round = 1
    /\ \E obj \in ReferenceObjects, cls \in ReferenceClasses :
            /\ call' = [call EXCEPT !.obj = obj, !.cls = cls, !.round = 2,
                                    !.self = ret.val]
            /\ ret' = Returned(method_decorator__get__(ret.val, obj, cls))
            /\ mem' = [self |-> DecoratorAfter(ret.val, obj, cls),
                       original |-> mem.original]
    /\ trace' = <<>>
    /\ pc' = "done"
    /\ KeepModule

\* a caller reads, assigns or deletes an item of an indexer property:
\* obj.prop[key], obj.prop[key] = value, del obj.prop[key]
CallItem ==
    /\ pc = "idle"
    /\ \E n \in 0..MaxRegistrations, form \in {"read", "assign", "delete"},
          instance \in {"None", "a", "b"}, key \in {"k1", "k2"} :
       \E regs \in [1..n -> Registrations],
          value \in (IF form = "assign" THEN {"v1", "v2"} ELSE {"None"}) :
         \E helper \in {indexerproperty__get__(
                            Register(indexerproperty("get_item"), regs, n), instance)} :
         \E g \in {CASE form = "read" -> __getitem__(helper, key)
                     [] form = "assign" -> __setitem__(helper, key, value)
                     [] OTHER -> __delitem__(helper, key)} :
            /\ call' = [fn |-> "item", form |-> form, getter |-> "get_item",
                        regs |-> regs, instance |-> instance, key |-> key,
                        value |-> value]
            /\ ret' = g.res
            /\ trace' = g.events
    /\ mem' = NoMem
    /\ pc' = "done"
    /\ KeepModule

\* the call is over; its arguments and result are dropped by the caller
Return ==
    /\ pc = "done"
    /\ pc' = "idle"
    /\ UNCHANGED <<registry, singletons>>
    /\ call' = NoCall
    /\ ret' = Returned(<<>>)
    /\ trace' = <<>>
    /\ mem' = NoMem

Next ==
    \/ CallBroadcastShapes
    \/ CallGetLibraryFor
    \/ CallModuleWrapper
    \/ CallTidied
    \/ CallOperator
    \/ CallNegative
    \/ CallNegativeAgain
    \/ CallGetattr
    \/ CallPartialMethod
    \/ CallReference
    \/ CallReferenceAgain
    \/ CallItem
    \/ Return

Spec == Init /\ [][Next]_vars

\* the calls of broadcast_shapes alone
SpecBroadcast == Init /\ [][CallBroadcastShapes \/ Return]_vars

\* the attribute lookups on the provider classes alone
SpecLookup == Init /\ [][CallGetattr \/ Return]_vars

\* the calls of methods made with partialmethod alone
SpecPartialMethod == Init /\ [][CallPartialMethod \/ Return]_vars

\* the references of decorated attributes alone
SpecDecorator == Init /\ [][CallReference \/ CallReferenceAgain \/ Return]_vars

\* the item accesses of indexer properties alone
SpecIndexer == Init /\ [][CallItem \/ Return]_vars

\* the calls of get_library_for alone
SpecResolve == Init /\ [][CallGetLibraryFor \/ Return]_vars

\* the calls of the generated wrappers alone
SpecDispatch == Init /\ [][CallModuleWrapper \/ Return]_vars

\* the direct calls of tidied providers alone
SpecTidy == Init /\ [][CallTidied \/ Return]_vars

\* negative, and negative of the result
SpecRoundTrip == Init /\ [][CallNegative \/ CallNegativeAgain \/ Return]_vars

\* the operators alone
SpecOperators == Init /\ [][CallOperator \/ Return]_vars

\* the generated wrappers and the direct calls of tidied providers
SpecDispatchTidy == Init /\ [][CallModuleWrapper \/ CallTidied \/ Return]_vars

\* the direct calls of tidied providers and the operators
SpecTidyOperators == Init /\ [][CallTidied \/ CallOperator \/ Return]_vars

(***************************************************************************)
(* Shape broadcasting: the rule the results are compared with.             *)
(***************************************************************************)
BroadcastDone == pc = "done" /\ call.fn = "broadcast_shapes"

MaxRankOf(shapes) == SeqMax([k \in DOMAIN shapes |-> Len(shapes[k])])

\* the size shape k has at position i (1-based) after left-padding to length n
PaddedAt(s, n, i) == IF i <= n - Len(s) THEN 1 ELSE s[i - (n - Len(s))]

\* the sizes other than 1 found at position i
NonOneAt(shapes, i) ==
    {PaddedAt(shapes[k], MaxRankOf(shapes), i) : k \in DOMAIN shapes} \ {1}

\* some position holds two sizes that both differ from 1 and from each other
Conflicting(shapes) ==
    \E i \in 1..MaxRankOf(shapes) : Cardinality(NonOneAt(shapes, i)) > 1

\* C1: for shapes that do not conflict, broadcast_shapes returns a tuple as long
\* as the longest input whose entry at each position of the left-padded inputs
\* is 1 if every input has 1 there and else the single size other than 1 found
\* there (0 included); broadcast_shapes((2,3),(3,)) = (2,3) and
\* broadcast_shapes((1,),(5,)) = (5,).
C1_BroadcastRule ==
    /\ broadcast_shapes(<<<<2, 3>>, <<3>>>>) = Returned(<<2, 3>>)
    /\ broadcast_shapes(<<<<1>>, <<5>>>>) = Returned(<<5>>)
    /\ (BroadcastDone /\ ~Conflicting(call.shapes)) =>
          /\ ret.err = "none"
          /\ Len(ret.val) = MaxRankOf(call.shapes)
          /\ \A i \in 1..Len(ret.val) :
                LET others == NonOneAt(call.shapes, i)
                IN  IF others = {} THEN ret.val[i] = 1 ELSE ret.val[i] \in others

\* a shorter shape was padded, a 1 gave way to a 0 and another to a 2
C1_Witness ==
    /\ BroadcastDone
    /\ call.shapes = <<<<1, 2>>, <<0, 1>>, <<1>>>>
    /\ ret = Returned(<<0, 2>>)

\* C2: broadcast_shapes fails with the shape-mismatch error exactly when some
\* position of the left-padded inputs holds two sizes that both differ from 1
\* and from each other, whatever the order and number of the shapes; then no
\* shape is returned, and otherwise it does not fail.
C2_MismatchIff ==
    /\ broadcast_shapes(<<<<2>>, <<3>>>>).err = "ValueError"
    /\ BroadcastDone =>
          /\ Conflicting(call.shapes) <=>
                (ret.err = "ValueError" /\ ret.val = <<>>
                   /\ ret.msg.text =
                         "shape mismatch: objects cannot be broadcast to a single shape")
          /\ ~Conflicting(call.shapes) <=> ret.err = "none"

\* the conflict is between the last two of three shapes, away from the first
C2_Witness ==
    /\ BroadcastDone
    /\ call.shapes = <<<<1, 1>>, <<2>>, <<2, 0>>>>
    /\ ret.err = "ValueError"

\* C3: for shapes a, b, c that are mutually compatible,
\* broadcast_shapes(broadcast_shapes(a, b), c) = broadcast_shapes(a, b, c).
C3_Associative ==
    (BroadcastDone /\ Len(call.shapes) = 3 /\ ~Conflicting(call.shapes)) =>
        LET a == call.shapes[1]
            b == call.shapes[2]
            c == call.shapes[3]
            ab == broadcast_shapes(<<a, b>>)
        IN  /\ ab.err = "none"
            /\ broadcast_shapes(<<ab.val, c>>) = ret

\* three shapes of different lengths, each contributing one size
C3_Witness ==
    /\ BroadcastDone
    /\ call.shapes = <<<<2, 1>>, <<0>>, <<>>>>
    /\ ret = Returned(<<2, 0>>)

(***************************************************************************)
(* Provider resolution.                                                    *)
(***************************************************************************)
ResolveDone == pc = "done" /\ call.fn = "get_library_for"

AllNumeric(objects) == \A k \in DOMAIN objects : objects[k].cls \in NumpyClasses

\* the positions whose operand advertises a provider that accepts every
\* operand of the call
Winners(objects) ==
    {i \in DOMAIN objects :
        /\ AdvertisedLibrary(objects[i]) # "None"
        /\ \A j \in DOMAIN objects : accepts(AdvertisedLibrary(objects[i]), objects[j])}

First(S) == CHOOSE i \in S : \A k \in S : i <= k

\* the positions whose attribute was read, in the order of the reads
ReadOrder == SelectSeq(trace, LAMBDA e : e.ev = "getattr")

\* C4: when not every operand is plain numeric, get_library_for scans the
\* operands in argument order, skips those that advertise no provider and
\* returns the provider of the earliest operand whose provider accepts every
\* operand (itself included); a returned provider accepts every operand.
C4_FirstAcceptingWins ==
    (ResolveDone /\ ~AllNumeric(call.objects)) =>
        LET objects == call.objects
            w == Winners(objects)
        IN  /\ \A k \in DOMAIN ReadOrder : ReadOrder[k].arg = k
            /\ \A k \in DOMAIN trace :
                  trace[k].ev = "accepts" =>
                      /\ trace[k].lib # "None"
                      /\ \E i \in DOMAIN objects :
                            AdvertisedLibrary(objects[i]) = trace[k].lib
            /\ w # {} =>
                  /\ ret = Returned(AdvertisedLibrary(objects[First(w)]))
                  /\ Len(ReadOrder) = First(w)
            /\ ret.err = "none" =>
                  \A j \in DOMAIN objects : accepts(ret.val, objects[j])

\* the first operand advertises nothing, the second a provider that refuses
\* the first, the third the provider that wins
C4_Witness ==
    /\ ResolveDone
    /\ call.objects = <<Operand("ndarray"), Operand("ClientB"), Operand("ClientA")>>
    /\ ret = Returned("LibA")
    /\ Len(ReadOrder) = 3

\* C5: when every operand is of the plain numeric types, get_library_for
\* returns the default numeric provider without reading any operand's
\* advertised-provider attribute and without calling any accepts, even if an
\* operand advertises another provider.
C5_FastPath ==
    (ResolveDone /\ AllNumeric(call.objects)) =>
        /\ ret = Returned("numpy_library")
        /\ trace = <<>>

\* an ndarray subclass that advertises LibA, among plain operands
C5_Witness ==
    /\ ResolveDone
    /\ call.objects = <<Operand("float"), Operand("NdSubA")>>
    /\ ret = Returned("numpy_library")

\* C6: when the operands are not all plain numeric and no advertised provider
\* accepts all of them (also when none is advertised), get_library_for fails
\* with an identification error whose message names every operand with its
\* concrete type, and returns no provider.
C6_IdentifyError ==
    (ResolveDone /\ ~AllNumeric(call.objects) /\ Winners(call.objects) = {}) =>
        /\ ret.err = "ValueError"
        /\ ret.val = <<>>
        /\ ret.msg[1] = "cannot identify math function library for input(s): "
        /\ Len(ret.msg[2]) = Len(call.objects)
        /\ \A k \in DOMAIN call.objects :
              ret.msg[2][k] = [thing |-> call.objects[k], type |-> call.objects[k].cls]

\* a wrapper next to an operand its provider refuses
C6_Witness ==
    /\ ResolveDone
    /\ call.objects = <<Operand("TestArrayWrapper"), Operand("dict")>>
    /\ ret.err = "ValueError"

(***************************************************************************)
(* The dispatch wrappers.                                                  *)
(***************************************************************************)
WrapperDone == pc = "done" /\ call.fn = "wrapper"

SignatureOf(name) == common_interface_functions[name].signature

\* the calls of the provider operations made during the call
Invokes == SelectSeq(trace, LAMBDA e : e.ev = "invoke")

\* the call gives the wrapper a number of arguments its signature takes
WellFormed ==
    CASE SignatureOf(call.name) = "std_unary" -> Len(call.args) \in {1, 2}
      [] SignatureOf(call.name) = "std_binary" -> Len(call.args) \in {2, 3}
      [] OTHER -> TRUE

\* the call of a standard wrapper supplies an output buffer
OutputSupplied ==
    \/ SignatureOf(call.name) = "std_unary" /\ Len(call.args) = 2
    \/ SignatureOf(call.name) = "std_binary" /\ Len(call.args) = 3

\* C7: in the standard unary and binary wrappers a supplied output buffer is
\* among the operands of provider resolution: the provider used is the one
\* get_library_for returns for (x, out) resp. (x, y, out), so a call with
\* plain numeric inputs and a custom output is executed by the output's
\* provider, and a call fails at resolution when no provider accepts the output.
C7_OutputResolved ==
    (WrapperDone /\ OutputSupplied) =>
        LET out == call.args[Len(call.args)]
            inputs == SubSeq(call.args, 1, Len(call.args) - 1)
            g == get_library_for(call.args)
        IN  /\ g.res.err = "none" =>
                  Len(Invokes) = 1 /\ Invokes[1].lib = g.res.val
            /\ g.res.err # "none" => Invokes = <<>> /\ ret = g.res
            /\ (/\ AllNumeric(inputs)
                /\ ~IsNumpyType(out)
                /\ \A k \in DOMAIN call.args :
                      accepts(AdvertisedLibrary(out), call.args[k])) =>
                  Len(Invokes) = 1 /\ Invokes[1].lib = AdvertisedLibrary(out)
            /\ (/\ ~IsNumpyType(out)
                /\ \A k \in DOMAIN call.args :
                      ~accepts(AdvertisedLibrary(call.args[k]), out)) =>
                  Invokes = <<>> /\ ret.err = "ValueError"

\* negative (ndarray, out = a TestArrayWrapper) runs on TestWrappedLibrary
C7_Witness ==
    /\ WrapperDone
    /\ call.name = "negative"
    /\ call.args = <<Arg(1, "ndarray", <<2>>), Arg(2, "TestArrayWrapper", <<2>>)>>
    /\ Len(Invokes) = 1
    /\ Invokes[1].lib = "TestWrappedLibrary"

\* the operands a wrapper call resolves the provider for
ResolvedOperands ==
    IF SignatureOf(call.name) = "other_1" THEN <<call.args[1]>> ELSE call.args

\* the positional arguments a dispatcher hands on: the caller's, with None
\* for an output that is not supplied
HandedOn ==
    IF SignatureOf(call.name) = "other_1" \/ OutputSupplied
    THEN call.args ELSE call.args \o <<None>>

\* C8: every operation of the registry has a generated module-level wrapper,
\* and a call of a wrapper invokes exactly one provider operation: the
\* operation of the same name on the provider resolution returns, with the
\* caller's operands, output buffer and keyword options unchanged.
C8_WrapperInvokesOnce ==
    /\ DOMAIN wrappers =
          {FunctionSpecifications[k].name : k \in DOMAIN FunctionSpecifications}
    /\ \A n \in DOMAIN wrappers :
          /\ wrappers[n].name = n
          /\ wrappers[n].dispatcher = _dispatchers[SignatureOf(n)]
    /\ WrapperDone => Len(Invokes) <= 1
    /\ (WrapperDone /\ WellFormed) =>
          LET g == get_library_for(ResolvedOperands)
          IN  g.res.err = "none" =>
                 Invokes = <<InvokeEvent(g.res.val, call.name, HandedOn, call.kwargs)>>

\* add (x, y, out, casting = ...) on three wrappers reaches TestWrappedLibrary.add
C8_Witness ==
    /\ WrapperDone
    /\ call.name = "add"
    /\ call.kwargs # NoKwargs
    /\ Len(call.args) = 3
    /\ \A k \in 1..3 : call.args[k].cls = "TestArrayWrapper"
    /\ Invokes = <<InvokeEvent("TestWrappedLibrary", "add", call.args, call.kwargs)>>

(***************************************************************************)
(* The tidying adapter.                                                    *)
(***************************************************************************)
TidiedDone == pc = "done" /\ call.fn = "tidied"

\* the calls of tidy_<op> made during the call
TidyCalls == SelectSeq(trace, LAMBDA e : e.ev = "tidy")

NewEmptyCalls == SelectSeq(trace, LAMBDA e : e.ev = "new_empty")

\* the output argument of the call (None when there is none)
OutArg == call.args[Len(call.args)]

InputArgs == SubSeq(call.args, 1, Len(call.args) - 1)

\* the shape that non-conflicting shapes broadcast to, by the rule of C1
RuleShape(shapes) ==
    [i \in 1..MaxRankOf(shapes) |->
        IF NonOneAt(shapes, i) = {} THEN 1
        ELSE CHOOSE v \in NonOneAt(shapes, i) : TRUE]

ArgShapes == [k \in DOMAIN call.args |-> call.args[k].shape]

\* C9: in the tidying adapter (unary and binary), when an output buffer is
\* supplied whose shape differs from the broadcast shape of all inputs
\* together with the output, the call fails before the provider's tidy
\* implementation is invoked, so no element of the output buffer is written.
C9_BadOutputFailsEarly ==
    (/\ TidiedDone
     /\ OutArg # None
     /\ Conflicting(ArgShapes) \/ RuleShape(ArgShapes) # OutArg.shape) =>
        /\ ret.err = "ValueError"
        /\ TidyCalls = <<>>
        /\ NewEmptyCalls = <<>>
        /\ mem = call.mem

\* add of a (2,) and a (1,2) array into a (2,) output: the broadcast is (1,2)
C9_Witness ==
    /\ TidiedDone
    /\ call.lib = "TestWrappedLibrary"
    /\ call.name = "add"
    /\ ArgShapes = <<<<2>>, <<1, 2>>, <<2>>>>
    /\ ret = Raised("ValueError", Message("output parameter must have final broadcasted shape", <<>>))

\* C10: every invocation of a provider's tidy_<op> made by the tidying adapter
\* passes operands and an output that all have the same shape and are all at
\* least one-dimensional, on every path.
C10_TidyArgsUniform ==
    TidiedDone =>
        \A k \in DOMAIN TidyCalls :
            LET t == TidyCalls[k]
            IN  /\ Len(t.out.shape) >= 1
                /\ \A i \in DOMAIN t.ins :
                      t.ins[i].shape = t.out.shape /\ Len(t.ins[i].shape) >= 1

InputShapes == [k \in DOMAIN InputArgs |-> InputArgs[k].shape]

\* the element type numpy promotes integer and floating-point inputs to
Promoted(args) ==
    IF \E k \in DOMAIN args : args[k].dtype = "float64" THEN "float64" ELSE "int64"

\* the element type of a new output of the operation called
ExpectedType ==
    IF "bool_result" \in common_interface_functions[call.name].flags THEN "bool"
    ELSE Promoted(InputArgs)

\* C11: when no output buffer is supplied, the tidying adapter allocates at
\* most one new output, through the provider's new_empty, and exactly one
\* whenever it gets as far as the tidy implementation; its shape is the
\* broadcast shape of the inputs and its element type is boolean if the
\* operation carries the bool_result flag, otherwise the input's element type
\* (unary) or the promoted type of both inputs' element types (binary); a
\* result that is returned is that new object.
C11_AllocatesOnce ==
    (TidiedDone /\ OutArg = None) =>
        /\ Len(NewEmptyCalls) <= 1
        /\ \A k \in DOMAIN NewEmptyCalls :
              NewEmptyCalls[k] =
                  NewEmptyEvent(call.lib, RuleShape(InputShapes), ExpectedType)
        /\ TidyCalls # <<>> => Len(NewEmptyCalls) = 1
        /\ ret.err = "none" =>
              /\ Len(NewEmptyCalls) = 1
              /\ ret.val.shape = RuleShape(InputShapes)
              /\ ret.val.dtype = ExpectedType
              /\ ret.val.cls = WrapperOf(call.lib)
              /\ ret.val.buf \notin DOMAIN call.mem

\* add of an integer (2,) array and a floating-point (1,2) array
C11_Witness ==
    /\ TidiedDone
    /\ call.lib = "TestWrappedLibrary"
    /\ call.name = "add"
    /\ OutArg = None
    /\ InputArgs[1].dtype = "int64" /\ InputArgs[2].dtype = "float64"
    /\ InputShapes = <<<<2>>, <<1, 2>>>>
    /\ ret.err = "none"
    /\ NewEmptyCalls = <<NewEmptyEvent("TestWrappedLibrary", <<1, 2>>, "float64")>>

\* C12: a tidied unary operation applied to a zero-dimensional operand with no
\* output buffer completes and returns a zero-dimensional result whose single
\* value is the operation applied to the operand's value, as written by the
\* tidy implementation.
C12_ZeroDimUnary ==
    (/\ TidiedDone
     /\ call.name = "negative"
     /\ OutArg = None
     /\ InputArgs[1].shape = <<>>) =>
        /\ ret.err = "none"
        /\ ret.val.shape = <<>>
        /\ Read(ret.val, mem) = <<0 - call.mem[InputArgs[1].buf][1]>>

(***************************************************************************)
(* The operators of MathlibDelegatingObject.                               *)
(***************************************************************************)
OperatorDone == pc = "done" /\ call.fn = "operator"

InPlace == OperatorDone /\ call.kind \in {"inplace", "ipow"}

\* the elements of self + other, where other is as large as self or has one
\* element
SumInPlace ==
    [k \in DOMAIN call.mem[call.self.buf] |->
        call.mem[call.self.buf][k]
        + (IF Len(call.mem[call.other.buf]) = 1 THEN call.mem[call.other.buf][1]
           ELSE call.mem[call.other.buf][k])]

\* C13: a tidied operation that is given an output buffer and succeeds
\* returns the caller's own output object and never calls new_empty; every
\* in-place operator of MathlibDelegatingObject passes the left operand as
\* the output buffer, and when it succeeds the result is in the left
\* operand's buffer and the left operand itself is returned.
C13_OutputReturned ==
    /\ (TidiedDone /\ OutArg # None /\ ret.err = "none") =>
          /\ ret.val = OutArg
          /\ NewEmptyCalls = <<>>
          /\ DOMAIN mem = DOMAIN call.mem
    /\ InPlace =>
          /\ \A k \in DOMAIN Invokes :
                Invokes[k].args = <<call.self, call.other, call.self>>
          /\ ret.err = "none" =>
                /\ ret.val = call.self
                /\ Len(Invokes) = 1
                /\ NewEmptyCalls = <<>>
                /\ DOMAIN mem = DOMAIN call.mem
                /\ call.name = "add" => mem[call.self.buf] = SumInPlace

\* a wrapper of two elements, increased in place by an array
C13_Witness ==
    /\ InPlace
    /\ call.form = "__iadd__"
    /\ call.self = Arg(1, "TestArrayWrapper", <<2>>)
    /\ call.other = Arg(2, "ndarray", <<2>>)
    /\ ret = Returned(call.self)
    /\ mem["b1"] = <<32, 34>>

(***************************************************************************)
(* Operations a provider does not implement.                               *)
(***************************************************************************)
\* a tidied provider has neither the operation nor its tidy form
Unimplemented(library, name) ==
    IF SignatureOf(name) = "other_1"
    THEN ~Implements(library, name) /\ name \notin {"get_dtype", "get_size", "shape"}
    ELSE ~Implements(library, "tidy_" \o name)

\* a wrapper call that resolved a tidied provider lacking the operation
WrapperUnimplemented ==
    /\ WrapperDone
    /\ Invokes # <<>>
    /\ Invokes[1].lib \in TidiedLibraries
    /\ Unimplemented(Invokes[1].lib, call.name)

TidiedUnimplemented == TidiedDone /\ Unimplemented(call.lib, call.name)

\* the operations carried out during the call, all on the provider library
OnlyOn(library) ==
    \A k \in DOMAIN trace :
        trace[k].ev \in {"invoke", "tidy", "new_empty"} => trace[k].lib = library

\* the type of an operand as a tidied provider sees it: its own type, or
\* the provider's wrapper type for a plain numeric operand
SeenAs(library, x) == IF IsNumpyType(x) THEN WrapperOf(library) ELSE x.cls

\* the adapter's checks reject the shapes of a direct call
ShapesRejected ==
    \/ Conflicting(ArgShapes)
    \/ OutArg # None /\ RuleShape(ArgShapes) # OutArg.shape

\* C14 as stated: when the provider chosen does not implement the requested
\* operation, the call fails with a not-implemented error that names the
\* operation and the concrete type of the operand, and no operation of any
\* other provider is invoked.
C14_NotImplementedNamed ==
    /\ WrapperUnimplemented =>
          /\ ret.err = "NotImplementedError"
          /\ ret.msg.args[1] \in {call.name, "tidy_" \o call.name}
          /\ ret.msg.args[2] = call.args[1].cls
          /\ OnlyOn(Invokes[1].lib)
    /\ TidiedUnimplemented =>
          /\ ret.err = "NotImplementedError"
          /\ ret.msg.args[1] \in {call.name, "tidy_" \o call.name}
          /\ ret.msg.args[2] = call.args[1].cls
          /\ OnlyOn(call.lib)

\* C14: when the provider chosen does not implement the requested operation
\* the call fails and no operation of any other provider is invoked.  A base
\* operation fails with a not-implemented error naming the operation and
\* the type of the operand.  A tidied operation fails with the ValueError of
\* the adapter's shape checks when they reject the arguments, and otherwise
\* with a not-implemented error naming the type of the operand after
\* typeconvert (the provider's wrapper type for a plain numeric operand)
\* and the operation that is missing: tidy_<op>
\* when the adapter gets as far as calling it, else the reshape or
\* broadcast_to that the adapter needs first.
C14_NotImplemented ==
    /\ WrapperUnimplemented =>
          /\ ret.err = "NotImplementedError"
          /\ OnlyOn(Invokes[1].lib)
          /\ ret.msg.args[3] = Invokes[1].lib
          /\ IF SignatureOf(call.name) = "other_1"
             THEN ret.msg.args[1] = call.name /\ ret.msg.args[2] = call.args[1].cls
             ELSE /\ ret.msg.args[1] = "tidy_" \o call.name
                  /\ ret.msg.args[2] = SeenAs(Invokes[1].lib, call.args[1])
    /\ TidiedUnimplemented =>
          /\ ret.err \in {"NotImplementedError", "ValueError"}
          /\ OnlyOn(call.lib)
          /\ ret.err = "ValueError" <=> ShapesRejected
          /\ ret.err = "NotImplementedError" =>
                /\ ret.msg.args[1] \in {"tidy_" \o call.name, "reshape", "broadcast_to"}
                /\ ret.msg.args[1] = "tidy_" \o call.name <=> TidyCalls # <<>>
                /\ ret.msg.args[2] = SeenAs(call.lib, call.args[1])
                /\ ret.msg.args[3] = call.lib

\* isfinite of an ndarray, asked of TestWrappedLibrary, which has no
\* tidy_isfinite: the error names tidy_isfinite and TestArrayWrapper
C14_Witness ==
    /\ TidiedDone
    /\ call.lib = "TestWrappedLibrary"
    /\ call.name = "isfinite"
    /\ call.args = <<ArgOf(1, "ndarray", <<2>>, "float64"), None>>
    /\ ret.err = "NotImplementedError"
    /\ ret.msg.args = <<"tidy_isfinite", "TestArrayWrapper", "TestWrappedLibrary">>
    /\ Len(TidyCalls) = 1

(***************************************************************************)
(* Shapes that cannot be broadcast together.                               *)
(***************************************************************************)
\* the words formatted into the message of the error the call ended with
Named == {ret.msg.args[k] : k \in DOMAIN ret.msg.args}

Corresponding(form) ==
    CASE form = "__lt__" -> "less"
      [] form = "__le__" -> "less_equal"
      [] form = "__eq__" -> "equal"
      [] form = "__ne__" -> "not_equal"
      [] form = "__gt__" -> "greater"
      [] form = "__ge__" -> "greater_equal"
      [] form \in {"__add__", "__radd__", "__iadd__"} -> "add"
      [] form \in {"__sub__", "__rsub__", "__isub__"} -> "subtract"
      [] form \in {"__mul__", "__rmul__", "__imul__"} -> "multiply"
      [] form \in {"__div__", "__rdiv__", "__idiv__"} -> "divide"
      [] form \in {"__truediv__", "__rtruediv__", "__itruediv__"} -> "true_divide"
      [] form \in {"__floordiv__", "__rfloordiv__", "__ifloordiv__"} -> "floor_divide"
      [] form \in {"__mod__", "__rmod__", "__imod__"} -> "remainder"
      [] form \in {"__pow__", "__rpow__", "__ipow__"} -> "power"
      [] form \in {"__lshift__", "__rlshift__", "__ilshift__"} -> "left_shift"
      [] form \in {"__rshift__", "__rrshift__", "__irshift__"} -> "right_shift"
      [] form \in {"__and__", "__rand__", "__iand__"} -> "bitwise_and"
      [] form \in {"__xor__", "__rxor__", "__ixor__"} -> "bitwise_xor"
      [] form \in {"__or__", "__ror__", "__ior__"} -> "bitwise_or"
      [] form = "__neg__" -> "negative"
      [] form = "__abs__" -> "absolute"
      [] OTHER -> "invert"

\* C16: every comparison, arithmetic, bitwise, reflected and in-place
\* operator of MathlibDelegatingObject resolves a provider over its operands
\* and asks it for an operation that is an entry of the registry and is the
\* one corresponding to the operator (+ for add, % for remainder); no
\* operator asks for a name that the resolved provider does not define.
C16_OperatorsUseRegistry ==
    (OperatorDone /\ Invokes # <<>>) =>
        /\ Invokes[1].name \in OpNames
        /\ Invokes[1].name = Corresponding(call.form)
        /\ ret.err # "AttributeError"

(***************************************************************************)
(* The round trip through negative.                                        *)
(***************************************************************************)
RoundTripDone == pc = "done" /\ call.fn = "roundtrip"

\* the elements of the array the caller wrapped, before the first call
OriginalData == call.before[call.origin.buf]

\* C17: for every array x of one or more dimensions over a bounded integer
\* domain, wrapped in TestArrayWrapper, both negative (x) and the negative
\* of its result succeed through the tidying adapter, negative (negative (x))
\* has the shape and the elements of x, and x itself is left unchanged.
C17_NegateTwice ==
    RoundTripDone =>
        /\ ret.err = "none"
        /\ ret.val.shape = call.origin.shape
        /\ ret.val.buf # call.origin.buf
        /\ mem[call.origin.buf] = OriginalData
        /\ call.round = 2 => Read(ret.val, mem) = OriginalData

\* the smallest integer is its own negative, 1 goes to -1 and back
C17_Witness ==
    /\ RoundTripDone
    /\ call.round = 2
    /\ OriginalData = <<MinInt, 1>>
    /\ Read(call.args[1], mem) = <<MinInt, -1>>
    /\ Read(ret.val, mem) = <<MinInt, 1>>
    /\ mem["b1"] = <<MinInt, 1>>

\* C18: a provider that extends the tidying adapter and defines only accepts,
\* new_empty, typeconvert and tidy_<op> completes <op> through the adapter
\* for every broadcast-compatible combination of operands and optional
\* output buffer, zero-dimensional operands and inputs smaller than the
\* broadcast shape included.
C18_CapabilitiesSuffice ==
    (/\ TidiedDone
     /\ call.lib = "LibB"
     /\ Implements("LibB", "tidy_" \o call.name)
     /\ ~ShapesRejected) =>
        ret.err = "none"

(***************************************************************************)
(* What a call leaves alone.                                               *)
(***************************************************************************)
\* the buffer a call may write: that of the output buffer it is given
OutputBuffers ==
    IF TidiedDone THEN (IF OutArg = None THEN {} ELSE {OutArg.buf})
    ELSE IF InPlace THEN {call.self.buf} ELSE {}

Reflected ==
    /\ OperatorDone
    /\ call.kind \in {"reflected", "rpow"}
    /\ call.modulo = None
    /\ call.name \in OpNames

\* the providers whose operations a list of events invokes
ProvidersOf(events) ==
    [k \in DOMAIN SelectSeq(events, LAMBDA e : e.ev = "invoke") |->
        SelectSeq(events, LAMBDA e : e.ev = "invoke")[k].lib]

\* the events of a resolution: the attribute reads and the accepts queries
ResolutionOf(events) == SelectSeq(events, LAMBDA e : e.ev \in {"getattr", "accepts"})

\* C21: every reflected operator form, reflected power included, resolves
\* its provider over (other, self) and invokes the operation with
\* (other, self), so that other OP self selects the same provider and gives
\* the same result as the module-level wrapper called as op (other, self).
C21_ReflectedLikeWrapper ==
    Reflected =>
        \A g \in {get_library_for(<<call.other, call.self>>)} :
        \A w \in {CallWrapper(wrappers[call.name], <<call.other, call.self>>,
                              NoKwargs, call.mem)} :
            /\ ResolutionOf(trace) = g.events
            /\ Invokes # <<>> => Invokes[1].args = <<call.other, call.self>>
            /\ ProvidersOf(trace) = ProvidersOf(w.events)
            /\ ret = w.res
            /\ mem = w.mem

(***************************************************************************)
(* The calling conventions of the registry.                                *)
(***************************************************************************)
\* the registry operations that numpy implements as functions of two arrays
\* (the functions getattr (np, fs.name) of mathlib.py 410 with two inputs)
TwoInputNames ==
    {"add", "arctan2", "bitwise_and", "bitwise_or", "bitwise_xor", "copysign",
     "divide", "equal", "floor_divide", "fmax", "fmin", "fmod", "greater",
     "greater_equal", "hypot", "ldexp", "left_shift", "less", "less_equal",
     "logaddexp", "logaddexp2", "logical_and", "logical_or", "logical_xor",
     "maximum", "minimum", "multiply", "nextafter", "not_equal", "power",
     "remainder", "right_shift", "subtract", "true_divide"}

\* the output buffer a standard wrapper hands to the provider's operation:
\* the last of the arguments (x, out) resp. (x, y, out)
PassedOutput == Invokes[1].args[Len(Invokes[1].args)]

\* C22: the calling convention of a registry entry matches the number of
\* array-like inputs of the operation: an operation of two array-like inputs
\* (such as arctan2) is registered as two-input, so its wrapper called with
\* two arguments resolves the provider over both and passes no output, and
\* called with three arguments it takes the third as the output buffer.
C22_TwoInputsRegistered ==
    (WrapperDone /\ call.name \in TwoInputNames /\ call.kwargs = NoKwargs) =>
        /\ registry[call.name].signature = "std_binary"
        /\ Len(call.args) = 2 =>
              /\ ResolutionOf(trace) = get_library_for(call.args).events
              /\ Invokes # <<>> => PassedOutput = None
        /\ Len(call.args) = 3 =>
              /\ ret # ArityError
              /\ Invokes # <<>> => PassedOutput = call.args[3]

(***************************************************************************)
(* Failures of the adapter and the caller's output buffer.                 *)
(***************************************************************************)
\* the messages of the failures the adapter raises itself: its shape
\* checks, and the stubs of reshape, broadcast_to and tidy_<op>
AdapterMessages ==
    {"shape mismatch: objects cannot be broadcast to a single shape",
     "output parameter must have final broadcasted shape",
     "math function \"%s\" not implemented for objects of type \"%s\" in %s"}

\* a direct call with an output buffer failed in the adapter
AdapterFailed ==
    /\ TidiedDone
    /\ OutArg # None
    /\ ret.err \in {"ValueError", "NotImplementedError"}
    /\ ret.msg.text \in AdapterMessages

\* C23: if a tidied operation called with a caller-supplied output buffer
\* fails for a reason raised by the adapter itself (inputs not
\* broadcast-compatible, output shape not the broadcast shape, reshape,
\* broadcast_to or tidy_<op> not implemented), the contents and the shape of
\* the output buffer are the same as before the call.
C23_FailureKeepsOutput ==
    AdapterFailed =>
        /\ mem[OutArg.buf] = call.mem[OutArg.buf]
        /\ Len(mem[OutArg.buf]) = Size(OutArg.base)
        /\ DOMAIN mem = DOMAIN call.mem

\* isfinite into a (2,) output on the test provider, which has no
\* tidy_isfinite
C23_Witness ==
    /\ AdapterFailed
    /\ call.lib = "TestWrappedLibrary"
    /\ call.name = "isfinite"
    /\ call.args = <<Arg(1, "TestArrayWrapper", <<2>>), Arg(3, "ndarray", <<2>>)>>
    /\ ret.err = "NotImplementedError"
    /\ ret.msg.args[1] = "tidy_isfinite"
    /\ mem["b3"] = <<31, 32>>

(***************************************************************************)
(* The default numeric provider.                                           *)
(***************************************************************************)
\* the providers the operands advertise
Advertised(objects) ==
    {AdvertisedLibrary(objects[k]) : k \in DOMAIN objects} \ {"None"}

\* C24: get_library_for returns the default numeric provider if and only if
\* every operand is of the plain numeric types: as soon as one operand is of
\* a custom type, the result is a provider advertised by one of the operands
\* or a failure, never the default numeric provider (no custom operand
\* advertises the default provider itself).
C24_DefaultOnlyForNumeric ==
    ResolveDone =>
        /\ "numpy_library" \notin Advertised(call.objects)
        /\ ret = Returned("numpy_library") <=> AllNumeric(call.objects)
        /\ ~AllNumeric(call.objects) =>
              \/ ret.err = "ValueError"
              \/ ret.err = "none" /\ ret.val \in Advertised(call.objects)

\* an array next to a wrapper whose provider takes arrays as well
C24_Witness ==
    /\ ResolveDone
    /\ call.objects = <<Operand("ndarray"), Operand("TestArrayWrapper")>>
    /\ ret = Returned("TestWrappedLibrary")
    /\ ~AllNumeric(call.objects)

(***************************************************************************)
(* The order of the shapes.                                                *)
(***************************************************************************)
\* the shapes of the call in the order p
Reordered(shapes, p) == [k \in DOMAIN shapes |-> shapes[p[k]]]

\* C25: the outcome of broadcast_shapes (the resulting shape, or the
\* failure) does not depend on the order of its arguments: for every
\* permutation of the list of shapes the result is identical, and
\* broadcasting the result again with any of the inputs returns the result
\* unchanged.
C25_OrderIndependent ==
    BroadcastDone =>
        /\ \A p \in Permutations(DOMAIN call.shapes) :
              broadcast_shapes(Reordered(call.shapes, p)) = ret
        /\ ret.err = "none" =>
              \A k \in DOMAIN call.shapes :
                  /\ broadcast_shapes(<<ret.val, call.shapes[k]>>) = ret
                  /\ broadcast_shapes(<<call.shapes[k], ret.val>>) = ret

\* three shapes of different lengths; the first holds no size of the result
C25_Witness ==
    /\ BroadcastDone
    /\ call.shapes = <<<<1>>, <<2, 1>>, <<0>>>>
    /\ ret = Returned(<<2, 0>>)
    /\ broadcast_shapes(<<<<0>>, <<2, 1>>, <<1>>>>) = ret

(***************************************************************************)
(* The operations of the provider classes.                                 *)
(***************************************************************************)
LookupDone == pc = "done" /\ call.fn = "getattr"

TidiedClasses == {"TidiedFunctionLibrary", "TestWrappedLibrary"}

StandardOp(op) == SignatureOf(op) \in {"std_unary", "std_binary"}

\* C26: for every name in the operation registry and every provider class
\* (base, numeric, tidied), looking the operation up on the provider yields
\* a callable, an implementation or the not-implemented stub; on the tidied
\* class every one-input and two-input registry entry has both the adapter
\* under its own name and a tidy_<name> hook.  No registered name is missing
\* from a provider.
C26_EveryNameCallable ==
    LookupDone =>
        /\ ~call.hook =>
              /\ ret.err = "none"
              /\ ret.val \in {"implementation", "adapter", "stub"}
              /\ ret.val = "adapter" =>
                    call.cls \in TidiedClasses /\ StandardOp(call.op)
        /\ (call.cls \in TidiedClasses /\ StandardOp(call.op)) =>
              /\ ret.err = "none"
              /\ ~call.hook => ret.val = "adapter"
              /\ call.hook => ret.val \in {"implementation", "stub"}

\* cbrt on the numeric provider of a numpy that has no cbrt: the stub of the
\* base class
C26_Witness ==
    /\ LookupDone
    /\ call.cls = "NumpyFunctionLibrary"
    /\ call.name = "cbrt"
    /\ call.absent = {"cbrt"}
    /\ ret = Returned("stub")

(***************************************************************************)
(* partialmethod.                                                          *)
(***************************************************************************)
PartialMethodDone == pc = "done" /\ call.fn = "partialmethod"

\* f is something that can be called: a plain function or a callable object
CallableFunc == call.kind \in {"function", "callable"}

\* the preset arguments, those of the inner partialmethod first
PresetArgs == call.inner.args \o call.preset.args

\* the preset keywords, those of the outer partialmethod over the inner ones
PresetKeywords ==
    [k \in DOMAIN call.inner.keywords \cup DOMAIN call.preset.keywords |->
        IF k \in DOMAIN call.preset.keywords THEN call.preset.keywords[k]
        ELSE call.inner.keywords[k]]

\* C27: a method defined as partialmethod (f, a1..an, k=v) and called on an
\* instance as obj.m (b1..bm, **kw) calls f exactly once with the positional
\* arguments (obj, a1..an, b1..bm) in that order and with keywords in which
\* call-time values override the preset ones; a partialmethod wrapped in
\* another partialmethod is equivalent to one partialmethod with the preset
\* arguments concatenated inner-first.
C27_PartialMethodCall ==
    (PartialMethodDone /\ CallableFunc) =>
        /\ ret.err = "none"
        /\ Len(trace) = 1
        /\ trace[1].ev = "called"
        /\ trace[1].func = "f"
        /\ trace[1].args = <<call.obj>> \o PresetArgs \o call.args
        /\ DOMAIN trace[1].keywords = DOMAIN PresetKeywords \cup DOMAIN call.keywords
        /\ \A k \in DOMAIN trace[1].keywords :
              trace[1].keywords[k] =
                 IF k \in DOMAIN call.keywords THEN call.keywords[k]
                 ELSE PresetKeywords[k]
        /\ \A one \in {partialmethod(Func(call.kind), PresetArgs, PresetKeywords)} :
              /\ one.err = "none"
              /\ trace = PartialMethodCall(one.val, call.obj, call.cls, call.args,
                                           call.keywords)

\* a nested partialmethod of a plain function; the call overrides keyword k
\* and leaves j as preset
C27_Witness ==
    /\ PartialMethodDone
    /\ call.kind = "function"
    /\ call.nested
    /\ trace[1].args = <<"obj", <<"inner", 1>>, <<"preset", 1>>, <<"preset", 2>>,
                         <<"call", 1>>>>
    /\ trace[1].keywords = [k |-> "call", j |-> "preset"]
    /\ DOMAIN call.inner.keywords = {"k", "j"}

(***************************************************************************)
(* method_decorator.                                                       *)
(***************************************************************************)
ReferenceDone == pc = "done" /\ call.fn = "reference"

\* obj.f or cls.f for the decorator the class body stored: Python passes
\* the owning class, and the instance or None
AttributeReference == ReferenceDone /\ call.round = 1 /\ call.cls # "None"

\* C28: referencing a method_decorator-wrapped attribute through an instance
\* or a class yields a decorator object whose method_type is 'staticmethod',
\* 'classmethod' or 'instancemethod' according to what was wrapped, whose
\* obj is the instance (None for class access) and whose cls is the owning
\* class, while a decorated plain function keeps method_type 'function'
\* with obj and cls None; the original decorator object stored on the class
\* is never modified by these references.
C28_ReferenceYieldsDecorator ==
    /\ AttributeReference =>
          /\ ret.val.method_type =
                (CASE call.kind = "staticmethod" -> "staticmethod"
                   [] call.kind = "classmethod" -> "classmethod"
                   [] OTHER -> "instancemethod")
          /\ ret.val.obj = call.obj
          /\ ret.val.cls = call.cls
          /\ ret.val # call.original
    /\ ReferenceDone =>
          /\ call.original.method_type = "function"
          /\ call.original.obj = "None" /\ call.original.cls = "None"
          /\ mem.original = call.original
          /\ mem.self = call.self

\* the static method referenced through an instance
C28_Witness ==
    /\ AttributeReference
    /\ call.kind = "staticmethod"
    /\ call.obj = "my_instance"
    /\ call.cls = "MyClass"
    /\ ret.val = [func |-> [type |-> "function", name |-> "f"], obj |-> "my_instance",
                  cls |-> "MyClass", method_type |-> "staticmethod"]
    /\ mem.original.func.type = "staticmethod"

(***************************************************************************)
(* indexerproperty.                                                        *)
(***************************************************************************)
ItemDone == pc = "done" /\ call.fn = "item"

\* the function the class body registered last as what, "None" without one
RegisteredAs(what) ==
    LET at == {i \in DOMAIN call.regs : call.regs[i][1] = what}
    IN  IF at = {} THEN "None"
        ELSE call.regs[CHOOSE i \in at : \A j \in at : j <= i][2]

\* the one call of f with args and nothing else
OnlyCalled(f, args) ==
    /\ Len(trace) = 1
    /\ trace[1].ev = "called"
    /\ trace[1].func = f
    /\ trace[1].args = args
    /\ ret.err = "none"

\* C29: for an indexerproperty, item read always calls the getter with
\* (instance, key); item assignment raises TypeError and calls nothing when
\* no setter was registered, and item deletion raises TypeError and calls
\* nothing when no deleter was registered; once a setter or deleter is
\* registered, the corresponding form calls it with the instance and key
\* (and value).
C29_ItemAccess ==
    ItemDone =>
        CASE call.form = "read" -> OnlyCalled(call.getter, <<call.instance, call.key>>)
          [] call.form = "assign" ->
                IF RegisteredAs("setter") = "None"
                THEN ret.err = "TypeError" /\ trace = <<>>
                ELSE OnlyCalled(RegisteredAs("setter"),
                                <<call.instance, call.key, call.value>>)
          [] OTHER ->
                IF RegisteredAs("deleter") = "None"
                THEN ret.err = "TypeError" /\ trace = <<>>
                ELSE OnlyCalled(RegisteredAs("deleter"), <<call.instance, call.key>>)

\* an assignment after a setter was registered and replaced, with no deleter
C29_Witness ==
    /\ ItemDone
    /\ call.form = "assign"
    /\ call.regs = <<<<"setter", "set_item">>, <<"setter", "set_other">>>>
    /\ trace = <<[ev |-> "called", func |-> "set_other",
                  args |-> <<"a", "k1", "v2">>, keywords |-> <<>>]>>
    /\ ret.err = "none"
====
